---- MODULE Spec2Model ----
(***************************************************************************)
(* Banking Transactions API (linhto217/FastAPI).                           *)
(*                                                                         *)
(* State machine of the application object: the lifespan start-up          *)
(* (banking_api/main.py), the request handlers of the transaction routes   *)
(* (banking_api/routers/transactions.py) with their service functions      *)
(* (banking_api/services/transactions_service.py) and the exception        *)
(* handlers that turn domain errors into response codes.                   *)
(*                                                                         *)
(* The loader (banking_api/data/loader.py) and the DataFrameDAL            *)
(* (banking_api/data/dataframe_dal.py) are modelled from the               *)
(* specification and from the tests that exercise them.                    *)
(*                                                                         *)
(* Amounts are whole currency units (naturals).  A Python Optional is a    *)
(* set: {} is None, {v} is the value v.  A row keeps the columns the       *)
(* modelled operations read; the four balance columns are carried by no    *)
(* operation modelled here and are left out.                               *)
(***************************************************************************)
EXTENDS Integers, Sequences, FiniteSets, TLC

(***************************************************************************)
(* Bounds of the model.                                                    *)
(***************************************************************************)
\* Longest source table of the delete/lookup specification.
MaxRows == 3
\* Longest source table of the listing/search specification.
MaxQueryRows == 2
\* Largest page number requested.
MaxPage == 3
\* Largest page size requested (the route admits 1..100).
MaxLimit == 2
\* Longest source table of the fraud-scoring specification.
MaxFraudRows == 2
\* Largest step a scoring request carries.
MaxStep == 2
\* Longest generated source table of the statistics specification.
MaxStatsRows == 3
\* Longest source table of the loader specification.
MaxLoadRows == 2
\* Longest source table of the customer specification.
MaxCustomerRows == 3
\* Largest n asked of the top customers (the route admits 1..100).
MaxTop == 3
\* Longest source table of the histogram and daily-statistics specification.
MaxAggregateRows == 3
\* Largest step a label of the daily statistics is read back for.
MaxLabelStep == 72

(***************************************************************************)
(* Python values.                                                          *)
(***************************************************************************)
None == {}

Some(v) == {v}

Get(o) == CHOOSE v \in o : TRUE

\* Truth value of an optional string (`if type_filter:`, `if name_orig`):
\* None and the empty string are both false.
Truthy(o) == o # None /\ Get(o) # ""

\* An empty dict.
EmptyDict == [k \in {} |-> 0]

\* min(a, b) of two integers.
Min(a, b) == IF a <= b THEN a ELSE b

\* The range of a sequence.
Range(s) == {s[i] : i \in 1..Len(s)}

\* s[a+1 .. b] in Python slice notation s[a:b], 0 <= a.
Slice(s, a, b) == SubSeq(s, a + 1, Min(b, Len(s)))

(***************************************************************************)
(* Formatting of numbers: str(n) and f"{n:07d}".                           *)
(***************************************************************************)
DigitStr(d) ==
    CASE d = 0 -> "0" [] d = 1 -> "1" [] d = 2 -> "2" [] d = 3 -> "3"
      [] d = 4 -> "4" [] d = 5 -> "5" [] d = 6 -> "6" [] d = 7 -> "7"
      [] d = 8 -> "8" [] d = 9 -> "9"

RECURSIVE DecStr(_)
DecStr(n) == IF n < 10 THEN DigitStr(n) ELSE DecStr(n \div 10) \o DigitStr(n % 10)

RECURSIVE ZeroPad(_, _)
ZeroPad(s, width) == IF Len(s) >= width THEN s ELSE ZeroPad("0" \o s, width)

\* Mutant: the number is padded to 6 digits.
TxId_six_digits(i) == "tx_" \o ZeroPad(DecStr(i), 6)

\* f"tx_{i:07d}"
TxId(i) == "tx_" \o ZeroPad(DecStr(i), 7)

(***************************************************************************)
(* Loader (banking_api/data/loader.py, modelled from the specification).   *)
(* A source is [exists, rows]; a raw row has the columns of the file.      *)
(***************************************************************************)
VALID_TYPES == {"CASH_IN", "CASH_OUT", "DEBIT", "PAYMENT", "TRANSFER"}

RawRow(step, type, amount, nameOrig, nameDest, isFraud, isFlaggedFraud) ==
    [step |-> step, type |-> type, amount |-> amount, nameOrig |-> nameOrig,
     nameDest |-> nameDest, isFraud |-> isFraud, isFlaggedFraud |-> isFlaggedFraud]

REQUIRED_COLUMNS ==
    {"step", "type", "amount", "nameOrig", "oldbalanceOrg", "newbalanceOrig",
     "nameDest", "oldbalanceDest", "newbalanceDest", "isFraud", "isFlaggedFraud"}

\* The columns the source has (all required ones unless it says otherwise).
Columns(src) == IF "columns" \in DOMAIN src THEN src.columns ELSE REQUIRED_COLUMNS

\* The columns in which a row has no value.
Nulls(r) == IF "nulls" \in DOMAIN r THEN r.nulls ELSE {}

\* The required columns the source lacks.
validate_columns(src) == REQUIRED_COLUMNS \ Columns(src)

\* Per column with nulls, the number of rows without a value in it.
validate_null_values(src) ==
    [c \in {d \in Columns(src) \cap REQUIRED_COLUMNS :
                \E i \in 1..Len(src.rows) : d \in Nulls(src.rows[i])} |->
        Cardinality({i \in 1..Len(src.rows) : c \in Nulls(src.rows[i])})]

\* The rows as the value rules see them: a row has no value in a column
\* that the source lacks.
CheckedRows(src) ==
    [i \in 1..Len(src.rows) |->
        [nulls |-> Nulls(src.rows[i]) \cup validate_columns(src)] @@ src.rows[i]]

\* Values of the type column outside the whitelist.
validate_types(rows) ==
    {rows[i].type : i \in {j \in 1..Len(rows) : "type" \notin Nulls(rows[j])}}
        \ VALID_TYPES

\* Row indices (0-based) whose isFraud / isFlaggedFraud is not 0 or 1.
validate_fraud_values(rows) ==
    {i - 1 : i \in {j \in 1..Len(rows) :
        \/ "isFraud" \notin Nulls(rows[j]) /\ rows[j].isFraud \notin {0, 1}
        \/ "isFlaggedFraud" \notin Nulls(rows[j])
               /\ rows[j].isFlaggedFraud \notin {0, 1}}}

\* Row i of the source (0-based) gets the id tx_<i, 7 digits>.
generate_transaction_ids(rows) ==
    [i \in 1..Len(rows) |->
        [id |-> TxId(i - 1), step |-> rows[i].step, type |-> rows[i].type,
         amount |-> rows[i].amount, nameOrig |-> rows[i].nameOrig,
         nameDest |-> rows[i].nameDest, isFraud |-> rows[i].isFraud,
         isFlaggedFraud |-> rows[i].isFlaggedFraud]]

NoLoadError == [kind |-> "none"]

\* A failure of load_transactions and what it reports.
LoadError(missing_source, missing_columns, null_values, invalid_types, invalid_fraud_values) ==
    [kind |-> "LoadError", missing_source |-> missing_source,
     missing_columns |-> missing_columns, null_values |-> null_values,
     invalid_types |-> invalid_types,
     invalid_fraud_values |-> invalid_fraud_values]

\* Mutant: validation stops at the first rule that finds a violation.
load_report_fail_fast(src) ==
    IF ~src.exists THEN LoadError(TRUE, {}, EmptyDict, {}, {})
    ELSE IF validate_columns(src) # {}
         THEN LoadError(FALSE, validate_columns(src), EmptyDict, {}, {})
    ELSE IF validate_null_values(src) # EmptyDict
         THEN LoadError(FALSE, {}, validate_null_values(src), {}, {})
    ELSE IF validate_types(CheckedRows(src)) # {}
         THEN LoadError(FALSE, {}, EmptyDict, validate_types(CheckedRows(src)), {})
    ELSE LoadError(FALSE, {}, EmptyDict, {}, validate_fraud_values(CheckedRows(src)))

\* The violations load_transactions collects: every rule runs on all it
\* can check and the findings are reported together.
load_report(src) ==
    IF ~src.exists THEN LoadError(TRUE, {}, EmptyDict, {}, {})
    ELSE LoadError(FALSE, validate_columns(src), validate_null_values(src),
                   validate_types(CheckedRows(src)),
                   validate_fraud_values(CheckedRows(src)))

\* load_transactions raises SystemExit exactly when a rule is violated.
LoadSucceeds(src) == load_report(src) = LoadError(FALSE, {}, EmptyDict, {}, {})

load_transactions(src) == generate_transaction_ids(src.rows)

(***************************************************************************)
(* The customer timeline (build_customer_timeline, banking_api/main.py).   *)
(***************************************************************************)
\* Mutant: the sort puts an entry before the earlier entries of its step.
RECURSIVE SortByStep_ties_reversed(_)
SortByStep_ties_reversed(s) ==
    IF s = <<>> THEN <<>>
    ELSE LET rest == SortByStep_ties_reversed(SubSeq(s, 1, Len(s) - 1))
             x == s[Len(s)]
             Before(e) == e[1] < x[1]
             After(e) == e[1] >= x[1]
         IN  SelectSeq(rest, Before) \o <<x>> \o SelectSeq(rest, After)

\* list.sort(key=step): stable, ascending by the first component.
RECURSIVE SortByStep(_)
SortByStep(s) ==
    IF s = <<>> THEN <<>>
    ELSE LET rest == SortByStep(SubSeq(s, 1, Len(s) - 1))
             x == s[Len(s)]
             Before(e) == e[1] <= x[1]
             After(e) == e[1] > x[1]
         IN  SelectSeq(rest, Before) \o <<x>> \o SelectSeq(rest, After)

\* customer -> (step, row index) pairs of the rows it sends, sorted by step.
CustomerTimeline(df) ==
    [c \in {df[i].nameOrig : i \in 1..Len(df)} |->
        LET idxs == SelectSeq([i \in 1..Len(df) |-> i],
                              LAMBDA i : df[i].nameOrig = c)
        IN  SortByStep([k \in 1..Len(idxs) |-> <<df[idxs[k]].step, idxs[k] - 1>>])]

(***************************************************************************)
(* DataFrameDAL (banking_api/data/dataframe_dal.py, modelled from the      *)
(* specification): a primary-key map id -> row and the row sequence.       *)
(***************************************************************************)
DataFrameDAL(df) ==
    [index    |-> [id \in {df[i].id : i \in 1..Len(df)} |->
                    (CHOOSE r \in Range(df) : r.id = id)],
     rows     |-> df,
     timeline |-> CustomerTimeline(df)]

EmptyDAL == DataFrameDAL(<<>>)

dal_get_dataframe(d) == d.rows

\* build_customer_timeline(dal) of banking_api/main.py.
build_customer_timeline(d) == CustomerTimeline(dal_get_dataframe(d))

\* dict of the row, or None.
dal_get_transaction_by_id(d, id) ==
    IF id \in DOMAIN d.index THEN Some(d.index[id]) ELSE None

\* The store after delete(id): the row leaves the index and the sequence.
dal_delete_transaction(d, id) ==
    LET Keep(r) == r.id # id
    IN  [index    |-> [k \in (DOMAIN d.index) \ {id} |-> d.index[k]],
         rows     |-> SelectSeq(d.rows, Keep),
         timeline |-> d.timeline]

\* The customer's (step, row index) pairs; [] for an unknown customer.
dal_get_customer_timeline(d, customer_id) ==
    IF customer_id \in DOMAIN d.timeline THEN d.timeline[customer_id] ELSE <<>>

\* What delete(id) returns: True when a row was removed.
dal_delete_result(d, id) == id \in DOMAIN d.index

\* A row passes the filters dict: every key present constrains it.
MatchesFilters(r, filters) ==
    /\ ("type" \in DOMAIN filters => r.type = filters["type"])
    /\ ("isFraud" \in DOMAIN filters => r.isFraud = filters["isFraud"])
    /\ ("min_amount" \in DOMAIN filters => r.amount >= filters["min_amount"])
    /\ ("max_amount" \in DOMAIN filters => r.amount <= filters["max_amount"])

\* (rows of page `page`, total matching); filters None is the empty dict.
dal_get_all_transactions(d, page, limit, filters) ==
    LET Hit(r) == MatchesFilters(r, filters)
        matched == SelectSeq(d.rows, Hit)
    IN  <<Slice(matched, (page - 1) * limit, page * limit), Len(matched)>>

\* A row passes the search criteria dict (type, isFraud, amount_range).
MatchesCriteria(r, criteria) ==
    /\ ("type" \in DOMAIN criteria => r.type = criteria["type"])
    /\ ("isFraud" \in DOMAIN criteria => r.isFraud = criteria["isFraud"])
    /\ ("amount_range" \in DOMAIN criteria =>
            /\ r.amount >= criteria["amount_range"][1]
            /\ r.amount <= criteria["amount_range"][2])

dal_search_transactions(d, criteria) ==
    LET Hit(r) == MatchesCriteria(r, criteria)
    IN  SelectSeq(d.rows, Hit)

(***************************************************************************)
(* Arithmetic on table columns.  A float result is the fraction            *)
(* [num, den]; den = 0 is NaN (the mean of an empty column).               *)
(***************************************************************************)
Frac(n, d) == [num |-> n, den |-> d]

RECURSIVE SumSeq(_)
SumSeq(s) == IF s = <<>> THEN 0 ELSE Head(s) + SumSeq(Tail(s))

Amounts(rows) == [i \in 1..Len(rows) |-> rows[i].amount]

\* Series.mean()
Mean(s) == Frac(SumSeq(s), Len(s))

\* round(n / d, digits) in units of 10^-digits, ties to even; d > 0.
RoundRatio(n, d, scale) ==
    LET q == (n * scale) \div d
        r == (n * scale) % d
    IN  IF 2 * r > d \/ (2 * r = d /\ q % 2 = 1) THEN Frac(q + 1, scale)
        ELSE Frac(q, scale)

\* The types in the order groupby("type") yields them.
TypeOrder == <<"CASH_IN", "CASH_OUT", "DEBIT", "PAYMENT", "TRANSFER">>

RowsOfType(df, t) == LET Is(r) == r.type = t IN SelectSeq(df, Is)

(***************************************************************************)
(* DataFrameDAL, the customer operations (modelled from the                *)
(* specification).                                                         *)
(***************************************************************************)
\* The sequence without its repetitions, in first-seen order.
RECURSIVE Dedup(_)
Dedup(s) ==
    IF s = <<>> THEN <<>>
    ELSE LET d == Dedup(SubSeq(s, 1, Len(s) - 1))
         IN  IF s[Len(s)] \in Range(d) THEN d ELSE Append(d, s[Len(s)])

\* The distinct origin customers in first-seen order.
dal_customers(d) == Dedup([i \in 1..Len(d.rows) |-> d.rows[i].nameOrig])

\* (customers of page `page`, number of customers).
dal_get_all_customers(d, page, limit) ==
    LET customers == dal_customers(d)
    IN  <<Slice(customers, (page - 1) * limit, page * limit), Len(customers)>>

\* The rows the customer sent (as_origin) or received, in table order.
dal_get_transactions_by_customer(d, customer_id, as_origin) ==
    SelectSeq(d.rows, LAMBDA r : IF as_origin THEN r.nameOrig = customer_id
                                 ELSE r.nameDest = customer_id)

\* None for a customer that sent no row.
dal_get_customer_stats(d, customer_id) ==
    LET g == dal_get_transactions_by_customer(d, customer_id, TRUE)
    IN  IF g = <<>> THEN None
        ELSE Some([id |-> customer_id,
                   transactions_count |-> Len(g),
                   avg_amount |-> Mean(Amounts(g)),
                   fraudulent |-> \E i \in 1..Len(g) : g[i].isFraud = 1])

\* Stable sort, descending by total_amount.
RECURSIVE SortByTotalDesc(_)
SortByTotalDesc(s) ==
    IF s = <<>> THEN <<>>
    ELSE LET rest == SortByTotalDesc(SubSeq(s, 1, Len(s) - 1))
             x == s[Len(s)]
         IN  SelectSeq(rest, LAMBDA e : e.total_amount >= x.total_amount)
             \o <<x>>
             \o SelectSeq(rest, LAMBDA e : e.total_amount < x.total_amount)

\* The n customers that sent most, ties in first-seen order.
dal_get_top_customers(d, n) ==
    LET customers == dal_customers(d)
        entries == [k \in 1..Len(customers) |->
            LET g == dal_get_transactions_by_customer(d, customers[k], TRUE)
            IN  [id |-> customers[k],
                 transactions_count |-> Len(g),
                 total_amount |-> SumSeq(Amounts(g)),
                 avg_amount |-> Mean(Amounts(g))]]
    IN  SubSeq(SortByTotalDesc(entries), 1, Min(n, Len(entries)))

(***************************************************************************)
(* compute_all_stats (banking_api/services/stats_service.py).              *)
(***************************************************************************)
\* value_counts().index[0]: a type of highest count (order of ties is
\* pandas' choice); "N/A" for a table without rows.
MostCommonTypes(df) ==
    IF df = <<>> THEN {"N/A"}
    ELSE {t \in {df[i].type : i \in 1..Len(df)} :
            \A u \in {df[i].type : i \in 1..Len(df)} :
                Len(RowsOfType(df, t)) >= Len(RowsOfType(df, u))}

Overview(df, most_common_type) ==
    [total_transactions |-> Len(df),
     fraud_rate         |-> Mean([i \in 1..Len(df) |-> df[i].isFraud]),
     avg_amount         |-> Mean(Amounts(df)),
     most_common_type   |-> most_common_type]

\* The finite edges of bins; the last bin ends at float("inf").
BinEdges == <<0, 100, 500, 1000, 5000, 10000, 50000, 100000>>

BinLabels == <<"0-100", "100-500", "500-1k", "1k-5k",
               "5k-10k", "10k-50k", "50k-100k", "100k+">>

\* pd.cut(amount, bins): bin i (1-based) is the interval (edge_i, edge_i+1],
\* open on the left and closed on the right; an amount in no interval has no bin.
InBin(a, i) ==
    /\ a > BinEdges[i]
    /\ (i < Len(BinEdges) => a <= BinEdges[i + 1])

AmountDistribution(df) ==
    [bins   |-> BinLabels,
     counts |-> [i \in 1..Len(BinLabels) |->
                    Cardinality({j \in 1..Len(df) : InBin(df[j].amount, i)})]]

\* Mutant: the count aggregates the isFraud column where it should count rows.
TypeStatsOf_counts_frauds(df, t) ==
    LET g == RowsOfType(df, t)
    IN  [type |-> t, count |-> SumSeq([i \in 1..Len(g) |-> g[i].isFraud]),
         avg_amount |-> Mean(Amounts(g)), total_amount |-> SumSeq(Amounts(g))]

TypeStatsOf(df, t) ==
    LET g == RowsOfType(df, t)
    IN  [type |-> t, count |-> Len(g), avg_amount |-> Mean(Amounts(g)),
         total_amount |-> SumSeq(Amounts(g))]

\* groupby("type", observed=True): one entry per type present, in type order.
ByType(df) ==
    LET Present(t) == RowsOfType(df, t) # <<>>
        present == SelectSeq(TypeOrder, Present)
    IN  [k \in 1..Len(present) |-> TypeStatsOf(df, present[k])]

DayOf(step) == step \div 24

\* Mutant: the label runs from the first step of the day, counted from 0.
StepRange_from_zero(day) == DecStr(day * 24) \o "-" \o DecStr((day + 1) * 24 - 1)

\* f"{day * 24 + 1}-{(day + 1) * 24}"
StepRange(day) == DecStr(day * 24 + 1) \o "-" \o DecStr((day + 1) * 24)

DailyStatsOf(df, day) ==
    LET OnDay(r) == DayOf(r.step) = day
        g == SelectSeq(df, OnDay)
    IN  [step_range |-> StepRange(day), transaction_count |-> Len(g),
         avg_amount |-> Mean(Amounts(g)), total_amount |-> SumSeq(Amounts(g))]

\* The members of a finite set of naturals in ascending order.
RECURSIVE Ascending(_)
Ascending(S) ==
    IF S = {} THEN <<>>
    ELSE LET m == CHOOSE x \in S : \A y \in S : x <= y
         IN  <<m>> \o Ascending(S \ {m})

\* groupby("day"): one entry per day present, ascending.
Daily(df) ==
    LET days == Ascending({DayOf(df[i].step) : i \in 1..Len(df)})
    IN  [k \in 1..Len(days) |-> DailyStatsOf(df, days[k])]

compute_all_stats(df, most_common_type) ==
    [overview            |-> Overview(df, most_common_type),
     amount_distribution |-> AmountDistribution(df),
     by_type             |-> ByType(df),
     daily               |-> Daily(df)]

(***************************************************************************)
(* compute_fraud_stats (banking_api/services/fraud_detection_service.py).  *)
(***************************************************************************)
\* Mutant: precision and recall are divided by each other's denominator.
FraudSummary_swapped_denominators(df) ==
    LET total_frauds == SumSeq([i \in 1..Len(df) |-> df[i].isFraud])
        flagged == SumSeq([i \in 1..Len(df) |-> df[i].isFlaggedFraud])
        flagged_and_fraud ==
            Cardinality({i \in 1..Len(df) :
                df[i].isFraud = 1 /\ df[i].isFlaggedFraud = 1})
    IN  [total_frauds |-> total_frauds,
         flagged      |-> flagged,
         precision    |-> IF total_frauds > 0
                          THEN RoundRatio(flagged_and_fraud, total_frauds, 100)
                          ELSE Frac(0, 100),
         recall       |-> IF flagged > 0
                          THEN RoundRatio(flagged_and_fraud, flagged, 100)
                          ELSE Frac(0, 100)]

FraudSummary(df) ==
    LET total_frauds == SumSeq([i \in 1..Len(df) |-> df[i].isFraud])
        flagged == SumSeq([i \in 1..Len(df) |-> df[i].isFlaggedFraud])
        flagged_and_fraud ==
            Cardinality({i \in 1..Len(df) :
                df[i].isFraud = 1 /\ df[i].isFlaggedFraud = 1})
    IN  [total_frauds |-> total_frauds,
         flagged      |-> flagged,
         precision    |-> IF flagged > 0
                          THEN RoundRatio(flagged_and_fraud, flagged, 100)
                          ELSE Frac(0, 100),
         recall       |-> IF total_frauds > 0
                          THEN RoundRatio(flagged_and_fraud, total_frauds, 100)
                          ELSE Frac(0, 100)]

FraudByTypeOf(df, t) ==
    LET g == RowsOfType(df, t)
        fraud_count == SumSeq([i \in 1..Len(g) |-> g[i].isFraud])
    IN  [type |-> t, total |-> Len(g), fraud_count |-> fraud_count,
         fraud_rate |-> IF Len(g) > 0 THEN RoundRatio(fraud_count, Len(g), 10000)
                        ELSE Frac(0, 10000)]

\* Mutant: groupby without observed=True -- an entry for every type, present
\* or not.
FraudByType_all_categories(df) ==
    [k \in 1..Len(TypeOrder) |-> FraudByTypeOf(df, TypeOrder[k])]

FraudByType(df) ==
    LET Present(t) == RowsOfType(df, t) # <<>>
        present == SelectSeq(TypeOrder, Present)
    IN  [k \in 1..Len(present) |-> FraudByTypeOf(df, present[k])]

compute_fraud_stats(df) ==
    [fraud_summary |-> FraudSummary(df), fraud_by_type |-> FraudByType(df)]

\* {**stats_data, **fraud_stats}
CachedStats(df, most_common_type) ==
    LET s == compute_all_stats(df, most_common_type)
        f == compute_fraud_stats(df)
    IN  [overview |-> s.overview, amount_distribution |-> s.amount_distribution,
         by_type |-> s.by_type, daily |-> s.daily,
         fraud_summary |-> f.fraud_summary, fraud_by_type |-> f.fraud_by_type]

(***************************************************************************)
(* predict_fraud (banking_api/services/fraud_detection_service.py).        *)
(* Money is in whole units, on which the float arithmetic of the code is   *)
(* exact; a score is in hundredths.                                        *)
(***************************************************************************)
RISKY_TYPES == {"CASH_OUT", "TRANSFER"}

HIGH_AMOUNT_THRESHOLD == 100000

\* 0.01
BALANCE_TOLERANCE == Frac(1, 100)

RAPID_TRANSACTION_STEP_GAP == 1

Abs(x) == IF x < 0 THEN -x ELSE x

\* Rule 1: abs((old_balance_org - amount) - new_balance_orig) > BALANCE_TOLERANCE
BalanceRule(amount, old_balance_org, new_balance_orig) ==
    LET expected_balance == old_balance_org - amount
        balance_diff == Abs(expected_balance - new_balance_orig)
    IN  balance_diff * BALANCE_TOLERANCE.den > BALANCE_TOLERANCE.num

\* Mutant: an entry at the very step of the request counts as rapid.
RapidRule_counts_same_step(d, name_orig, step) ==
    /\ Truthy(name_orig)
    /\ step # None
    /\ \E k \in 1..Len(dal_get_customer_timeline(d, Get(name_orig))) :
          Abs(dal_get_customer_timeline(d, Get(name_orig))[k][1] - Get(step))
              <= RAPID_TRANSACTION_STEP_GAP

\* Rule 4: `if name_orig and step is not None`, then the first timeline entry
\* at another step within the gap adds to the score and ends the loop.
RapidRule(d, name_orig, step) ==
    /\ Truthy(name_orig)
    /\ step # None
    /\ LET timeline == dal_get_customer_timeline(d, Get(name_orig))
       IN  \E k \in 1..Len(timeline) :
              /\ timeline[k][1] # Get(step)
              /\ Abs(timeline[k][1] - Get(step)) <= RAPID_TRANSACTION_STEP_GAP

\* Mutant: the score is returned without the cap at 1.0.
predict_fraud_uncapped(d, type_, amount, old_balance_org, new_balance_orig, name_orig, step) ==
    LET score == (IF BalanceRule(amount, old_balance_org, new_balance_orig) THEN 30 ELSE 0)
               + (IF type_ \in RISKY_TYPES THEN 30 ELSE 0)
               + (IF amount > HIGH_AMOUNT_THRESHOLD THEN 40 ELSE 0)
               + (IF RapidRule(d, name_orig, step) THEN 30 ELSE 0)
    IN  [isFraud |-> score > 50, probability |-> Frac(score, 100)]

\* Mutant: the high-amount rule adds 0.6.
predict_fraud_heavy_amount(d, type_, amount, old_balance_org, new_balance_orig, name_orig, step) ==
    LET score == (IF BalanceRule(amount, old_balance_org, new_balance_orig) THEN 30 ELSE 0)
               + (IF type_ \in RISKY_TYPES THEN 30 ELSE 0)
               + (IF amount > HIGH_AMOUNT_THRESHOLD THEN 60 ELSE 0)
               + (IF RapidRule(d, name_orig, step) THEN 30 ELSE 0)
        probability == Min(score, 100)
    IN  [isFraud |-> probability > 50, probability |-> Frac(probability, 100)]

predict_fraud(d, type_, amount, old_balance_org, new_balance_orig, name_orig, step) ==
    LET score == (IF BalanceRule(amount, old_balance_org, new_balance_orig) THEN 30 ELSE 0)
               + (IF type_ \in RISKY_TYPES THEN 30 ELSE 0)
               + (IF amount > HIGH_AMOUNT_THRESHOLD THEN 40 ELSE 0)
               + (IF RapidRule(d, name_orig, step) THEN 30 ELSE 0)
        probability == Min(score, 100)
    IN  [isFraud |-> probability > 50, probability |-> Frac(probability, 100)]

(***************************************************************************)
(* The getters over app.state.cached_stats (stats_service.py,              *)
(* fraud_detection_service.py).                                            *)
(***************************************************************************)
get_overview(cs) == cs["overview"]

get_amount_distribution(cs) == cs["amount_distribution"]

get_stats_by_type(cs) == cs["by_type"]

get_daily_stats(cs) == cs["daily"]

get_fraud_summary(cs) == cs["fraud_summary"]

get_fraud_by_type(cs) == cs["fraud_by_type"]

(***************************************************************************)
(* Exceptions (banking_api/exceptions.py) and the exception handlers of    *)
(* banking_api/main.py.  A service call yields Return(v) or Raise(e).      *)
(***************************************************************************)
Return(v) == [exc |-> "", value |-> v]

Raise(e) == [exc |-> e, value |-> None]

BankingAPIErrors ==
    {"TransactionNotFoundError", "CustomerNotFoundError",
     "InvalidSearchCriteriaError", "DeleteNotAllowedError", "DataNotLoadedError"}

\* The classes of an exception from its own to the most general
\* (type(exc).__mro__, banking_api/exceptions.py).
Mro(e) ==
    IF e = "BankingAPIError" THEN <<"BankingAPIError", "Exception">>
    ELSE IF e \in BankingAPIErrors THEN <<e, "BankingAPIError", "Exception">>
    ELSE <<e, "Exception">>

\* @app.exception_handler(cls): the status each registered handler answers.
exception_handlers ==
    ("TransactionNotFoundError" :> 404)
    @@ ("CustomerNotFoundError" :> 404)
    @@ ("InvalidSearchCriteriaError" :> 400)
    @@ ("DeleteNotAllowedError" :> 403)
    @@ ("BankingAPIError" :> 500)

\* Mutant: the handler of the most general registered class answers.
StatusOf_most_general_handler(e) ==
    LET Registered(c) == c \in DOMAIN exception_handlers
        handled == SelectSeq(Mro(e), Registered)
    IN  IF handled = <<>> THEN 500 ELSE exception_handlers[handled[Len(handled)]]

\* The handler registered for the nearest class of the exception answers;
\* an exception no handler is registered for is a server error.
StatusOf(e) ==
    LET Registered(c) == c \in DOMAIN exception_handlers
        handled == SelectSeq(Mro(e), Registered)
    IN  IF handled = <<>> THEN 500 ELSE exception_handlers[handled[1]]

ErrorResponse(e) == [status |-> StatusOf(e), error |-> e, body |-> None, value |-> None]

OkResponse(body, value) == [status |-> 200, error |-> "", body |-> body, value |-> value]

(***************************************************************************)
(* Service functions (banking_api/services/transactions_service.py).       *)
(***************************************************************************)
\* The filters dict get_transactions builds from its optional arguments.
BuildFilters(type_filter, is_fraud, min_amount, max_amount) ==
    (IF Truthy(type_filter) THEN "type" :> Get(type_filter) ELSE EmptyDict)
    @@ (IF is_fraud # None THEN "isFraud" :> Get(is_fraud) ELSE EmptyDict)
    @@ (IF min_amount # None THEN "min_amount" :> Get(min_amount) ELSE EmptyDict)
    @@ (IF max_amount # None THEN "max_amount" :> Get(max_amount) ELSE EmptyDict)

\* Mutant: page and limit are handed to the DAL in the wrong order.
get_transactions_swapped(d, page, limit, type_filter, is_fraud, min_amount, max_amount) ==
    dal_get_all_transactions(d, limit, page,
        BuildFilters(type_filter, is_fraud, min_amount, max_amount))

get_transactions(d, page, limit, type_filter, is_fraud, min_amount, max_amount) ==
    dal_get_all_transactions(d, page, limit,
        BuildFilters(type_filter, is_fraud, min_amount, max_amount))

\* Mutant: None is returned where the exception should be raised.
get_transaction_by_id_returns_none(d, transaction_id) ==
    LET transaction == dal_get_transaction_by_id(d, transaction_id)
    IN  IF transaction = None THEN Return(None) ELSE Return(Get(transaction))

get_transaction_by_id(d, transaction_id) ==
    LET transaction == dal_get_transaction_by_id(d, transaction_id)
    IN  IF transaction = None THEN Raise("TransactionNotFoundError")
        ELSE Return(Get(transaction))

\* criteria.model_dump(exclude_none=True) of a SearchRequest.
SearchDict(type, isFraud, amount_range) ==
    (IF type # None THEN "type" :> Get(type) ELSE EmptyDict)
    @@ (IF isFraud # None THEN "isFraud" :> Get(isFraud) ELSE EmptyDict)
    @@ (IF amount_range # None THEN "amount_range" :> Get(amount_range) ELSE EmptyDict)

search_transactions(d, criteria) == dal_search_transactions(d, criteria)

get_transactions_by_customer(d, customer_id, as_origin) ==
    dal_get_transactions_by_customer(d, customer_id, as_origin)

(***************************************************************************)
(* Service functions (banking_api/services/customer_service.py).           *)
(***************************************************************************)
\* Mutant: page and limit are handed to the DAL in the wrong order.
get_customers_swapped(d, page, limit) == dal_get_all_customers(d, limit, page)

get_customers(d, page, limit) == dal_get_all_customers(d, page, limit)

\* Mutant: a customer without statistics gets an empty profile.
get_customer_by_id_empty_profile(d, customer_id) ==
    LET stats == dal_get_customer_stats(d, customer_id)
    IN  IF stats = None
        THEN Return([id |-> customer_id, transactions_count |-> 0,
                     avg_amount |-> Frac(0, 100), fraudulent |-> FALSE])
        ELSE Return([id |-> Get(stats).id,
                     transactions_count |-> Get(stats).transactions_count,
                     avg_amount |-> RoundRatio(Get(stats).avg_amount.num,
                                               Get(stats).avg_amount.den, 100),
                     fraudulent |-> Get(stats).fraudulent])

get_customer_by_id(d, customer_id) ==
    LET stats == dal_get_customer_stats(d, customer_id)
    IN  IF stats = None THEN Raise("CustomerNotFoundError")
        ELSE Return([id |-> Get(stats).id,
                     transactions_count |-> Get(stats).transactions_count,
                     avg_amount |-> RoundRatio(Get(stats).avg_amount.num,
                                               Get(stats).avg_amount.den, 100),
                     fraudulent |-> Get(stats).fraudulent])

\* Mutant: the DAL is asked for one customer more than requested.
get_top_customers_one_more(d, n) ==
    LET top_customers_data == dal_get_top_customers(d, n + 1)
    IN  [k \in 1..Len(top_customers_data) |->
            LET c == top_customers_data[k]
            IN  [id |-> c.id,
                 transactions_count |-> c.transactions_count,
                 total_amount |-> RoundRatio(c.total_amount, 1, 100),
                 avg_amount |-> RoundRatio(c.avg_amount.num, c.avg_amount.den, 100)]]

get_top_customers(d, n) ==
    LET top_customers_data == dal_get_top_customers(d, n)
    IN  [k \in 1..Len(top_customers_data) |->
            LET c == top_customers_data[k]
            IN  [id |-> c.id,
                 transactions_count |-> c.transactions_count,
                 total_amount |-> RoundRatio(c.total_amount, 1, 100),
                 avg_amount |-> RoundRatio(c.avg_amount.num, c.avg_amount.den, 100)]]

\* Mutant: the existence check is left out.
delete_transaction_check_no_lookup(testing, d, transaction_id) ==
    IF ~testing THEN "DeleteNotAllowedError" ELSE ""

\* Mutant: the test-mode check is left out.
delete_transaction_check_any_mode(testing, d, transaction_id) ==
    IF dal_get_transaction_by_id(d, transaction_id) = None
    THEN "TransactionNotFoundError"
    ELSE ""

\* Mutant: the existence check comes before the test-mode check.
delete_transaction_check_exists_first(testing, d, transaction_id) ==
    IF dal_get_transaction_by_id(d, transaction_id) = None
    THEN "TransactionNotFoundError"
    ELSE IF ~testing THEN "DeleteNotAllowedError" ELSE ""

\* delete_transaction up to its call of dal.delete_transaction: the
\* exception it raises, or "" when it goes on to delete.
delete_transaction_check(testing, d, transaction_id) ==
    IF ~testing THEN "DeleteNotAllowedError"
    ELSE IF dal_get_transaction_by_id(d, transaction_id) = None
         THEN "TransactionNotFoundError"
         ELSE ""

\* [{"id": ..., "amount": ..., "type": ...} for t in transactions]
SummaryList(transactions) ==
    [i \in 1..Len(transactions) |->
        [id |-> transactions[i].id, amount |-> transactions[i].amount,
         type |-> transactions[i].type]]

(***************************************************************************)
(* State.                                                                  *)
(***************************************************************************)
Workers == {1, 2}

VARIABLES
    test_mode,          \* TEST_MODE of the environment is "1", "true" or "yes"
    source,             \* the data file
    load_error,         \* what load_transactions reported when it failed
    pc,                 \* where lifespan stands
    df,                 \* lifespan's df
    attrs,              \* the attributes set on app.state
    dal,                \* app.state.dal
    customer_timeline,  \* app.state.customer_timeline
    cached_stats,       \* app.state.cached_stats
    log,                \* the start-up stages logged as done
    wpc,                \* per worker thread: "idle", "deleting", "responded"
    req,                \* per worker thread: the request it serves
    resp,               \* per worker thread: the response it produced
    succeeded           \* ids whose DELETE was answered with success

vars == <<test_mode, source, load_error, pc, df, attrs, dal, customer_timeline,
          cached_stats, log, wpc, req, resp, succeeded>>

appvars == <<load_error, pc, df, attrs, dal, customer_timeline, cached_stats, log>>

NoReq == [op |-> "none"]

NoResp == [status |-> 0, error |-> "", body |-> None, value |-> None]

(***************************************************************************)
(* Inputs.                                                                 *)
(***************************************************************************)
\* All sequences over S of length 0..n.
SeqsUpTo(S, n) == UNION {[1..k -> S] : k \in 0..n}

MissingSource == [exists |-> FALSE, rows |-> <<>>]

\* Rows of the delete/lookup specification: two valid rows and one whose
\* type is outside the whitelist.
MainRows ==
    {RawRow(1, "PAYMENT", 100, "C1", "M1", 0, 0),
     RawRow(2, "TRANSFER", 200000, "C2", "C1", 1, 1),
     RawRow(1, "BOGUS", 100, "C1", "M1", 0, 0)}

MainSources ==
    {MissingSource} \cup {[exists |-> TRUE, rows |-> t] : t \in SeqsUpTo(MainRows, MaxRows)}

\* Rows of the listing/search specification: two types, two amounts and the
\* two fraud labels, any two of the three columns in every combination.
QueryRows ==
    {RawRow(1, "PAYMENT", 100, "C1", "M1", 0, 0),
     RawRow(1, "PAYMENT", 500, "C1", "M1", 1, 0),
     RawRow(1, "TRANSFER", 100, "C1", "M1", 1, 0),
     RawRow(1, "TRANSFER", 500, "C1", "M1", 0, 0)}

QuerySources ==
    {[exists |-> TRUE, rows |-> t] : t \in SeqsUpTo(QueryRows, MaxQueryRows)}

\* Ids a client asks for: the ids a table of MaxRows rows has, and one
\* that no table has.
RequestIds == {TxId(i) : i \in 0..(MaxRows - 1)} \cup {"tx_nonexistent"}

TypeArgs == {None, Some(""), Some("PAYMENT")}

FraudArgs == {None, Some(0), Some(1)}

MinArgs == {None, Some(500)}

MaxArgs == {None, Some(100)}

RangeArgs == {None, Some(<<100, 100>>), Some(<<100, 500>>), Some(<<500, 100>>)}

\* Rows of the fraud-scoring specification: C1 sends at steps 1 and 3, C2 at
\* step 2; M1 only receives.
FraudRows ==
    {RawRow(1, "PAYMENT", 100, "C1", "M1", 0, 0),
     RawRow(3, "PAYMENT", 100, "C1", "M1", 0, 0),
     RawRow(2, "TRANSFER", 100, "C2", "C1", 0, 0)}

FraudSources ==
    {[exists |-> TRUE, rows |-> t] : t \in SeqsUpTo(FraudRows, MaxFraudRows)}

PredictTypes == {"PAYMENT", "TRANSFER", "CASH_OUT"}

\* <<amount, oldbalanceOrg, newbalanceOrig>>: consistent and low, off by one
\* and low, inconsistent and high, consistent at the threshold, consistent
\* and just above it.
PredictMoney ==
    {<<500, 5000, 4500>>, <<500, 5000, 4499>>, <<250000, 300000, 0>>,
     <<100000, 100000, 0>>, <<100001, 100001, 0>>}

PredictNames == {None, Some(""), Some("C1"), Some("C2"), Some("M1")}

PredictSteps == {None} \cup {Some(n) : n \in 0..MaxStep}

\* Rows of the statistics specification: payments with every pair of fraud
\* label and flag, transfers that are clean or flagged frauds.
StatsRows ==
    {RawRow(1, "PAYMENT", 100, "C1", "M1", f, g) : f \in {0, 1}, g \in {0, 1}}
    \cup {RawRow(1, "TRANSFER", 500, "C2", "M1", f, f) : f \in {0, 1}}

\* The table of tests/test_services/test_fraud_detection.py:
\* isFraud [1,1,0,0,1] and isFlaggedFraud [1,0,1,0,1].
PrecisionRecallRows ==
    <<RawRow(1, "TRANSFER", 1000, "C1", "M1", 1, 1),
      RawRow(1, "TRANSFER", 1000, "C1", "M1", 1, 0),
      RawRow(1, "TRANSFER", 1000, "C1", "M1", 0, 1),
      RawRow(1, "TRANSFER", 1000, "C1", "M1", 0, 0),
      RawRow(1, "TRANSFER", 1000, "C1", "M1", 1, 1)>>

StatsSources ==
    {[exists |-> TRUE, rows |-> t] :
        t \in SeqsUpTo(StatsRows, MaxStatsRows) \cup {PrecisionRecallRows}}

StatsNames == {"overview", "amount_distribution", "by_type", "daily",
               "fraud_summary", "fraud_by_type"}

\* Rows of the loader specification: a valid row, two rows with types outside
\* the whitelist, a row with a bad fraud label, one with a bad flag, and two
\* rows with missing values.
LoadRows ==
    {RawRow(1, "PAYMENT", 100, "C1", "M1", 0, 0),
     RawRow(1, "BOGUS", 100, "C1", "M1", 0, 0),
     RawRow(1, "WIRE", 100, "C1", "M1", 0, 0),
     RawRow(1, "PAYMENT", 100, "C1", "M1", 2, 0),
     RawRow(1, "PAYMENT", 100, "C1", "M1", 0, -1),
     [nulls |-> {"amount"}] @@ RawRow(1, "PAYMENT", 100, "C1", "M1", 0, 0),
     [nulls |-> {"amount", "type"}] @@ RawRow(1, "PAYMENT", 100, "C1", "M1", 0, 0)}

\* The column sets of the loader specification: complete, lacking one
\* balance column, lacking two, lacking the type.
LoadColumns ==
    {REQUIRED_COLUMNS,
     REQUIRED_COLUMNS \ {"oldbalanceOrg"},
     REQUIRED_COLUMNS \ {"oldbalanceOrg", "newbalanceDest"},
     REQUIRED_COLUMNS \ {"type"}}

LoadSources ==
    {MissingSource}
    \cup {[exists |-> TRUE, rows |-> t, columns |-> c] :
            t \in SeqsUpTo(LoadRows, MaxLoadRows), c \in LoadColumns}

\* Rows of the customer specification: C1 sends 100 and 101 (once as a
\* fraud), C2 sends 100 to C1, C3 sends 201 to C2; M1 only receives.
CustomerRows ==
    {RawRow(1, "PAYMENT", 100, "C1", "M1", 0, 0),
     RawRow(1, "PAYMENT", 101, "C1", "M1", 1, 0),
     RawRow(1, "TRANSFER", 100, "C2", "C1", 0, 0),
     RawRow(1, "TRANSFER", 201, "C3", "C2", 0, 0)}

CustomerSources ==
    {[exists |-> TRUE, rows |-> t] : t \in SeqsUpTo(CustomerRows, MaxCustomerRows)}

CustomerIds == {"C1", "C2", "C3", "M1", "C_nonexistent"}

\* Rows of the histogram and daily-statistics specification, <<step, amount>>:
\* steps on both sides of the day boundaries 24 and 48 and amounts on and
\* beside the bin edges 0, 100 and 100000.
AggregateRows ==
    {RawRow(sa[1], "PAYMENT", sa[2], "C1", "M1", 0, 0) :
        sa \in {<<0, 0>>, <<1, 50>>, <<23, 100001>>, <<24, 100>>, <<25, 101>>,
                <<48, 100000>>}}

InitWith(sources) ==
    /\ test_mode \in BOOLEAN
    /\ source \in sources
    /\ load_error = NoLoadError
    /\ pc = "start"
    /\ df = <<>>
    /\ attrs = {}
    /\ dal = EmptyDAL
    /\ customer_timeline = EmptyDict
    /\ cached_stats = EmptyDict
    /\ log = <<>>
    /\ wpc = [w \in Workers |-> "idle"]
    /\ req = [w \in Workers |-> NoReq]
    /\ resp = [w \in Workers |-> NoResp]
    /\ succeeded = {}

InitAggregates ==
    InitWith({[exists |-> TRUE, rows |-> t] :
                t \in SeqsUpTo(AggregateRows, MaxAggregateRows)})

Init == InitWith(MainSources)

InitQuery == InitWith(QuerySources)

InitFraud == InitWith(FraudSources)

InitStats == InitWith(StatsSources)

InitLoad == InitWith(LoadSources)

InitCustomers == InitWith(CustomerSources)

(***************************************************************************)
(* lifespan (banking_api/main.py): the start-up, one stage per action.     *)
(***************************************************************************)
\* Mutant: a failed load is swallowed and start-up goes on with no rows.
LoadData_swallows_failure ==
    /\ pc = "start"
    /\ attrs' = attrs \cup {"start_time", "load_time"}
    /\ df' = IF LoadSucceeds(source) THEN load_transactions(source) ELSE <<>>
    /\ log' = Append(log, "load")
    /\ pc' = "loaded"
    /\ UNCHANGED <<test_mode, source, load_error, dal, customer_timeline, cached_stats,
                   wpc, req, resp, succeeded>>

\* start_time and load_time are set, then load_transactions runs; its
\* SystemExit ends the process.
LoadData ==
    /\ pc = "start"
    /\ attrs' = attrs \cup {"start_time", "load_time"}
    /\ IF LoadSucceeds(source)
       THEN /\ df' = load_transactions(source)
            /\ log' = Append(log, "load")
            /\ pc' = "loaded"
            /\ UNCHANGED load_error
       ELSE /\ load_error' = load_report(source)
            /\ pc' = "exited"
            /\ UNCHANGED <<df, log>>
    /\ UNCHANGED <<test_mode, source, dal, customer_timeline, cached_stats,
                   wpc, req, resp, succeeded>>

InitDal ==
    /\ pc = "loaded"
    /\ dal' = DataFrameDAL(df)
    /\ attrs' = attrs \cup {"dal"}
    /\ log' = Append(log, "dal")
    /\ pc' = "dal"
    /\ UNCHANGED <<test_mode, source, load_error, df, customer_timeline, cached_stats,
                   wpc, req, resp, succeeded>>

BuildTimeline ==
    /\ pc = "dal"
    /\ customer_timeline' = build_customer_timeline(dal)
    /\ attrs' = attrs \cup {"customer_timeline"}
    /\ log' = Append(log, "timeline")
    /\ pc' = "timeline"
    /\ UNCHANGED <<test_mode, source, load_error, df, dal, cached_stats,
                   wpc, req, resp, succeeded>>

\* Mutant: the statistics are computed before the timeline is built, which
\* is then skipped.
PrecomputeStats_before_timeline ==
    /\ pc = "dal"
    /\ \E t \in MostCommonTypes(df) : cached_stats' = CachedStats(df, t)
    /\ attrs' = attrs \cup {"cached_stats"}
    /\ log' = Append(log, "stats")
    /\ pc' = "stats"
    /\ UNCHANGED <<test_mode, source, load_error, df, dal, customer_timeline,
                   wpc, req, resp, succeeded>>

PrecomputeStats ==
    /\ pc = "timeline"
    /\ \E t \in MostCommonTypes(df) : cached_stats' = CachedStats(df, t)
    /\ attrs' = attrs \cup {"cached_stats"}
    /\ log' = Append(log, "stats")
    /\ pc' = "stats"
    /\ UNCHANGED <<test_mode, source, load_error, df, dal, customer_timeline,
                   wpc, req, resp, succeeded>>

\* lifespan yields: the application starts to accept requests.
Yield ==
    /\ pc = "stats"
    /\ pc' = "serving"
    /\ UNCHANGED <<test_mode, source, load_error, df, attrs, dal, customer_timeline,
                   cached_stats, log, wpc, req, resp, succeeded>>

\* Requests are routed once lifespan has yielded.
Serving == pc = "serving"

(***************************************************************************)
(* Request handlers (banking_api/routers/transactions.py), each run by a   *)
(* worker thread of the server.                                            *)
(***************************************************************************)
Answer(w, request, response) ==
    /\ wpc' = [wpc EXCEPT ![w] = "responded"]
    /\ req' = [req EXCEPT ![w] = request]
    /\ resp' = [resp EXCEPT ![w] = response]

\* GET /api/transactions/{id}
get_transaction(w, id) ==
    /\ Serving
    /\ wpc[w] = "idle"
    /\ LET r == get_transaction_by_id(dal, id)
       IN  Answer(w, [op |-> "get", id |-> id],
                  IF r.exc # "" THEN ErrorResponse(r.exc)
                  ELSE OkResponse(r.value, r.value))
    /\ UNCHANGED <<test_mode, source, appvars, succeeded>>

\* DELETE /api/transactions/{id}, up to the call of dal.delete_transaction.
delete_transaction_begin(w, id) ==
    /\ Serving
    /\ wpc[w] = "idle"
    /\ LET e == delete_transaction_check(test_mode, dal, id)
       IN  IF e # ""
           THEN Answer(w, [op |-> "delete", id |-> id], ErrorResponse(e))
           ELSE /\ wpc' = [wpc EXCEPT ![w] = "deleting"]
                /\ req' = [req EXCEPT ![w] = [op |-> "delete", id |-> id]]
                /\ resp' = resp
    /\ UNCHANGED <<test_mode, source, appvars, succeeded>>

\* Mutant: success is answered and the row stays in the store.
delete_transaction_finish_keeps_row(w) ==
    /\ wpc[w] = "deleting"
    /\ wpc' = [wpc EXCEPT ![w] = "responded"]
    /\ resp' = [resp EXCEPT ![w] = OkResponse([success |-> TRUE], TRUE)]
    /\ succeeded' = succeeded \cup {req[w].id}
    /\ UNCHANGED <<test_mode, source, appvars, req>>

\* Mutant: the delete also recomputes the cached statistics from the rows
\* that are left.
delete_transaction_finish_refreshes_stats(w) ==
    /\ wpc[w] = "deleting"
    /\ dal' = dal_delete_transaction(dal, req[w].id)
    /\ \E t \in MostCommonTypes(dal'.rows) : cached_stats' = CachedStats(dal'.rows, t)
    /\ wpc' = [wpc EXCEPT ![w] = "responded"]
    /\ resp' = [resp EXCEPT ![w] =
                    OkResponse([success |-> TRUE], dal_delete_result(dal, req[w].id))]
    /\ succeeded' = succeeded \cup {req[w].id}
    /\ UNCHANGED <<test_mode, source, load_error, pc, df, attrs, customer_timeline, log, req>>

\* dal.delete_transaction(id), then DeleteResponse(success=True) whatever
\* the call returned.
delete_transaction_finish(w) ==
    /\ wpc[w] = "deleting"
    /\ dal' = dal_delete_transaction(dal, req[w].id)
    /\ wpc' = [wpc EXCEPT ![w] = "responded"]
    /\ resp' = [resp EXCEPT ![w] =
                    OkResponse([success |-> TRUE], dal_delete_result(dal, req[w].id))]
    /\ succeeded' = succeeded \cup {req[w].id}
    /\ UNCHANGED <<test_mode, source, load_error, pc, df, attrs, customer_timeline,
                   cached_stats, log, req>>

\* GET /api/transactions
list_transactions(w, page, limit, type, isFraud, min_amount, max_amount) ==
    /\ Serving
    /\ wpc[w] = "idle"
    /\ LET r == get_transactions(dal, page, limit, type, isFraud,
                                 min_amount, max_amount)
       IN  Answer(w, [op |-> "list", page |-> page, limit |-> limit,
                      type |-> type, isFraud |-> isFraud,
                      min_amount |-> min_amount, max_amount |-> max_amount],
                  OkResponse([page |-> page, transactions |-> SummaryList(r[1])], r))
    /\ UNCHANGED <<test_mode, source, appvars, succeeded>>

\* POST /api/transactions/search
search_transactions_route(w, type, isFraud, amount_range) ==
    /\ Serving
    /\ wpc[w] = "idle"
    /\ LET r == search_transactions(dal, SearchDict(type, isFraud, amount_range))
       IN  Answer(w, [op |-> "search", type |-> type, isFraud |-> isFraud,
                      amount_range |-> amount_range],
                  OkResponse(r, r))
    /\ UNCHANGED <<test_mode, source, appvars, succeeded>>

\* Mutant: the scored transaction is entered into its customer's timeline.
predict_fraud_route_records_entry(w, type, amount, oldbalanceOrg, newbalanceOrig, nameOrig, step) ==
    /\ Serving
    /\ wpc[w] = "idle"
    /\ LET r == predict_fraud(dal, type, amount, oldbalanceOrg, newbalanceOrig,
                              nameOrig, step)
       IN  Answer(w, [op |-> "predict", type |-> type, amount |-> amount,
                      oldbalanceOrg |-> oldbalanceOrg,
                      newbalanceOrig |-> newbalanceOrig,
                      nameOrig |-> nameOrig, step |-> step],
                  OkResponse(r, r))
    /\ dal' = IF Truthy(nameOrig) /\ step # None
              THEN [dal EXCEPT !.timeline =
                      (Get(nameOrig) :>
                          Append(dal_get_customer_timeline(dal, Get(nameOrig)),
                                 <<Get(step), Len(dal.rows)>>)) @@ @]
              ELSE dal
    /\ UNCHANGED <<test_mode, source, load_error, pc, df, attrs, customer_timeline,
                   cached_stats, log, succeeded>>

\* POST /api/fraud/predict (banking_api/routers/fraud.py)
predict_fraud_route(w, type, amount, oldbalanceOrg, newbalanceOrig, nameOrig, step) ==
    /\ Serving
    /\ wpc[w] = "idle"
    /\ LET r == predict_fraud(dal, type, amount, oldbalanceOrg, newbalanceOrig,
                              nameOrig, step)
       IN  Answer(w, [op |-> "predict", type |-> type, amount |-> amount,
                      oldbalanceOrg |-> oldbalanceOrg,
                      newbalanceOrig |-> newbalanceOrig,
                      nameOrig |-> nameOrig, step |-> step],
                  OkResponse(r, r))
    /\ UNCHANGED <<test_mode, source, appvars, succeeded>>

\* GET /api/stats/{overview, amount-distribution, by-type, daily}
\* (banking_api/routers/stats.py) and GET /api/fraud/{summary, by-type}
\* (banking_api/routers/fraud.py).
stats_route(w, name) ==
    /\ Serving
    /\ wpc[w] = "idle"
    /\ LET r == CASE name = "overview" -> get_overview(cached_stats)
                  [] name = "amount_distribution" -> get_amount_distribution(cached_stats)
                  [] name = "by_type" -> get_stats_by_type(cached_stats)
                  [] name = "daily" -> get_daily_stats(cached_stats)
                  [] name = "fraud_summary" -> get_fraud_summary(cached_stats)
                  [] name = "fraud_by_type" -> get_fraud_by_type(cached_stats)
       IN  Answer(w, [op |-> "stats", name |-> name], OkResponse(r, r))
    /\ UNCHANGED <<test_mode, source, appvars, succeeded>>

\* GET /api/customers/{customer_id} (banking_api/routers/customers.py)
get_customer(w, customer_id) ==
    /\ Serving
    /\ wpc[w] = "idle"
    /\ LET r == get_customer_by_id(dal, customer_id)
       IN  Answer(w, [op |-> "customer", customer_id |-> customer_id],
                  IF r.exc # "" THEN ErrorResponse(r.exc)
                  ELSE OkResponse(r.value, r.value))
    /\ UNCHANGED <<test_mode, source, appvars, succeeded>>

\* GET /api/customers/top
get_top_customers_route(w, n) ==
    /\ Serving
    /\ wpc[w] = "idle"
    /\ LET r == get_top_customers(dal, n)
       IN  Answer(w, [op |-> "top", n |-> n], OkResponse(r, r))
    /\ UNCHANGED <<test_mode, source, appvars, succeeded>>

\* GET /api/customers
list_customers(w, page, limit) ==
    /\ Serving
    /\ wpc[w] = "idle"
    /\ LET r == get_customers(dal, page, limit)
       IN  Answer(w, [op |-> "customers", page |-> page, limit |-> limit],
                  OkResponse([page |-> page, limit |-> limit, total |-> r[2],
                              data |-> r[1]], r))
    /\ UNCHANGED <<test_mode, source, appvars, succeeded>>

\* A request whose handler raises an exception of class e: the registered
\* exception handler answers it (banking_api/main.py).
exception_handler(w, e) ==
    /\ Serving
    /\ wpc[w] = "idle"
    /\ Answer(w, [op |-> "raise", exc |-> e], ErrorResponse(e))
    /\ UNCHANGED <<test_mode, source, appvars, succeeded>>

\* The response is sent and the worker thread takes the next request.
Done(w) ==
    /\ wpc[w] = "responded"
    /\ wpc' = [wpc EXCEPT ![w] = "idle"]
    /\ req' = [req EXCEPT ![w] = NoReq]
    /\ resp' = [resp EXCEPT ![w] = NoResp]
    /\ UNCHANGED <<test_mode, source, appvars, succeeded>>

(***************************************************************************)
(* Specifications.                                                         *)
(***************************************************************************)
Lifespan == LoadData \/ InitDal \/ BuildTimeline \/ PrecomputeStats \/ Yield

GetStep == \E w \in Workers, id \in RequestIds : get_transaction(w, id)

DeleteBeginStep == \E w \in Workers, id \in RequestIds : delete_transaction_begin(w, id)

DeleteFinishStep == \E w \in Workers : delete_transaction_finish(w)

DoneStep == \E w \in Workers : Done(w)

\* Start-up, then lookups and deletes by two worker threads.
Next == Lifespan \/ GetStep \/ DeleteBeginStep \/ DeleteFinishStep \/ DoneStep

Spec == Init /\ [][Next]_vars

ListStep ==
    \E page \in 1..MaxPage, limit \in 1..MaxLimit, type \in TypeArgs,
       isFraud \in FraudArgs, min_amount \in MinArgs, max_amount \in MaxArgs :
        list_transactions(1, page, limit, type, isFraud, min_amount, max_amount)

SearchStep ==
    \E type \in TypeArgs, isFraud \in FraudArgs, amount_range \in RangeArgs :
        search_transactions_route(1, type, isFraud, amount_range)

QueryDeleteStep ==
    \/ \E id \in RequestIds : delete_transaction_begin(1, id)
    \/ delete_transaction_finish(1)

\* Start-up, then listings, searches and deletes by one worker thread.
NextQuery == Lifespan \/ ListStep \/ SearchStep \/ QueryDeleteStep \/ Done(1)

SpecQuery == InitQuery /\ [][NextQuery]_vars

PredictStep ==
    \E type \in PredictTypes, m \in PredictMoney, nameOrig \in PredictNames,
       step \in PredictSteps :
        predict_fraud_route(1, type, m[1], m[2], m[3], nameOrig, step)

\* Start-up, then fraud scorings by one worker thread.
NextFraud == Lifespan \/ PredictStep \/ Done(1)

SpecFraud == InitFraud /\ [][NextFraud]_vars

StatsStep == \E name \in StatsNames : stats_route(1, name)

ListByTypeStep ==
    \E type \in {Some(t) : t \in VALID_TYPES} :
        list_transactions(1, 1, 1, type, None, None, None)

\* Start-up, then reads of the cached statistics and listings by type, by
\* one worker thread; the store stays as loaded.
NextStats == Lifespan \/ StatsStep \/ ListByTypeStep \/ Done(1)

SpecStats == InitStats /\ [][NextStats]_vars

\* The start-up alone, on sources that break the loader's rules.
NextLoad == Lifespan

SpecLoad == InitLoad /\ [][NextLoad]_vars

CustomerStep == \E customer_id \in CustomerIds : get_customer(1, customer_id)

TopStep == \E n \in 1..MaxTop : get_top_customers_route(1, n)

\* Start-up, then customer listings, profiles, top customers and deletes by
\* one worker thread.
NextCustomers ==
    \/ Lifespan
    \/ \E page \in 1..MaxPage, limit \in 1..MaxLimit : list_customers(1, page, limit)
    \/ CustomerStep
    \/ TopStep
    \/ QueryDeleteStep
    \/ Done(1)

SpecCustomers == InitCustomers /\ [][NextCustomers]_vars

\* Start-up, then reads of the cached statistics by one worker thread.
NextAggregates == Lifespan \/ StatsStep \/ Done(1)

SpecAggregates == InitAggregates /\ [][NextAggregates]_vars

\* Start-up, then fraud scorings (plain or risky and high, with or without
\* a customer and a step) and reads of the cached statistics by two worker
\* threads.
NextPredict ==
    \/ Lifespan
    \/ \E w \in Workers, type \in {"PAYMENT", "TRANSFER"},
          m \in {<<500, 5000, 4500>>, <<250000, 300000, 0>>},
          nameOrig \in {None, Some("C1"), Some("C2")},
          step \in {None, Some(1), Some(2)} :
           predict_fraud_route(w, type, m[1], m[2], m[3], nameOrig, step)
    \/ \E w \in Workers, name \in StatsNames : stats_route(w, name)
    \/ DoneStep

SpecPredict == InitFraud /\ [][NextPredict]_vars

\* Start-up, then lookups, deletes, customer profiles and requests that fail
\* with each class of banking_api/exceptions.py (the base class and its five
\* subclasses), by one worker thread.
NextErrors ==
    \/ Lifespan
    \/ \E id \in RequestIds : get_transaction(1, id)
    \/ QueryDeleteStep
    \/ CustomerStep
    \/ \E e \in BankingAPIErrors \cup {"BankingAPIError"} : exception_handler(1, e)
    \/ Done(1)

SpecErrors == Init /\ [][NextErrors]_vars

(***************************************************************************)
(* Properties of the store under DELETE (specification Spec).              *)
(***************************************************************************)
Ids(rows) == {rows[i].id : i \in 1..Len(rows)}

\* The table the loader produced from the source.
LoadedRows == load_transactions(source)

\* The ids GET /api/transactions/{id} finds.
Retrievable ==
    {id \in RequestIds \cup Ids(LoadedRows) : get_transaction_by_id(dal, id).exc = ""}

\* The listing without filters, on one page.
UnfilteredListing ==
    get_transactions(dal, 1, Len(LoadedRows) + 1, None, None, None, None)[1]

\* Worker w takes a DELETE of id in this step.
DeleteCalled(w, id) ==
    /\ wpc[w] = "idle"
    /\ wpc'[w] # "idle"
    /\ req'[w] = [op |-> "delete", id |-> id]

\* The store holds a row with this id.
InStore(id) == \E i \in 1..Len(dal.rows) : dal.rows[i].id = id

\* C1: whatever deletes ran, the ids found by id are the ids of the
\* unfiltered listing and are the loaded ids less the ids whose delete
\* succeeded; the rows left keep their order and content (so an id once
\* deleted is not found again: the set of succeeded deletes only grows).
C1_DeleteKeepsStoreConsistent ==
    "dal" \in attrs =>
        /\ Retrievable = Ids(UnfilteredListing)
        /\ Retrievable = Ids(LoadedRows) \ succeeded
        /\ UnfilteredListing = SelectSeq(LoadedRows, LAMBDA r : r.id \notin succeeded)
        /\ \A id \in Retrievable :
              \E i \in 1..Len(LoadedRows) :
                  /\ LoadedRows[i].id = id
                  /\ get_transaction_by_id(dal, id).value = LoadedRows[i]

\* A delete of the first of three rows succeeded; the other two remain.
C1_Witness ==
    /\ test_mode
    /\ succeeded = {TxId(0)}
    /\ Len(LoadedRows) = 3
    /\ Len(dal.rows) = 2

\* C2: outside test mode a DELETE of an id that is in the store is answered
\* with DeleteNotAllowedError, removes nothing, and the row is still found.
C2_DeleteForbiddenOutsideTestMode ==
    [][\A w \in Workers, id \in RequestIds :
        (DeleteCalled(w, id) /\ ~test_mode /\ InStore(id)) =>
            /\ wpc'[w] = "responded"
            /\ resp'[w].error = "DeleteNotAllowedError"
            /\ dal' = dal
            /\ get_transaction_by_id(dal', id) = Return(dal.index[id])]_vars

\* Outside test mode a DELETE of a stored id was answered with the error.
C2_Witness ==
    \E w \in Workers :
        /\ ~test_mode
        /\ wpc[w] = "responded"
        /\ req[w].op = "delete"
        /\ InStore(req[w].id)
        /\ resp[w].error = "DeleteNotAllowedError"

\* C3: in test mode a DELETE of an id that is not in the store is answered
\* with TransactionNotFoundError and leaves the store as it was.
C3_DeleteUnknownIdLeavesStore ==
    [][\A w \in Workers, id \in RequestIds :
        (DeleteCalled(w, id) /\ test_mode /\ ~InStore(id)) =>
            /\ wpc'[w] = "responded"
            /\ resp'[w].error = "TransactionNotFoundError"
            /\ dal' = dal
            /\ \A k \in Ids(dal.rows) :
                  get_transaction_by_id(dal', k) = get_transaction_by_id(dal, k)]_vars

\* In test mode a DELETE of an unknown id was answered with the error
\* while the store holds rows.
C3_Witness ==
    \E w \in Workers :
        /\ test_mode
        /\ wpc[w] = "responded"
        /\ req[w] = [op |-> "delete", id |-> "tx_nonexistent"]
        /\ resp[w].error = "TransactionNotFoundError"
        /\ dal.rows # <<>>

\* C4: of the DELETE requests for one id that the workers have answered, at
\* most one reports success (the other fails with TransactionNotFoundError).
C4_OneDeleteSucceeds ==
    \A id \in RequestIds :
        Cardinality({w \in Workers :
            /\ wpc[w] = "responded"
            /\ req[w] = [op |-> "delete", id |-> id]
            /\ resp[w].status = 200}) <= 1

Customers(rows) == {rows[i].nameOrig : i \in 1..Len(rows)}

\* The cached statistics and both timelines are those of the loaded table.
StatsAreOfLoadedTable ==
    "cached_stats" \in attrs =>
        /\ \E t \in MostCommonTypes(LoadedRows) :
              get_overview(cached_stats) = Overview(LoadedRows, t)
        /\ get_amount_distribution(cached_stats) = AmountDistribution(LoadedRows)
        /\ get_stats_by_type(cached_stats) = ByType(LoadedRows)
        /\ get_daily_stats(cached_stats) = Daily(LoadedRows)
        /\ get_fraud_summary(cached_stats) = FraudSummary(LoadedRows)
        /\ get_fraud_by_type(cached_stats) = FraudByType(LoadedRows)
        /\ customer_timeline = CustomerTimeline(LoadedRows)
        /\ \A c \in Customers(LoadedRows) \cup {"C0"} :
              dal_get_customer_timeline(dal, c) =
                  IF c \in Customers(LoadedRows) THEN CustomerTimeline(LoadedRows)[c]
                  ELSE <<>>

\* Once cached, the statistics and the timelines are never written again.
StatsNeverRewritten ==
    "cached_stats" \in attrs =>
        /\ cached_stats' = cached_stats
        /\ customer_timeline' = customer_timeline
        /\ dal'.timeline = dal.timeline

\* C5: deletes, successful or failed, leave the six cached statistics and
\* the timeline as start-up computed them from the loaded table.
C5_DeleteLeavesStatsAndTimeline ==
    [](StatsAreOfLoadedTable) /\ [][StatsNeverRewritten]_vars

\* One delete succeeded and one failed; the overview still counts the three
\* loaded rows and the timeline still refers to the deleted row.
C5_Witness ==
    /\ succeeded = {TxId(0)}
    /\ Len(dal.rows) = 2
    /\ get_overview(cached_stats).total_transactions = 3
    /\ \E c \in Customers(LoadedRows) :
          \E k \in 1..Len(dal_get_customer_timeline(dal, c)) :
              dal_get_customer_timeline(dal, c)[k][2] = 0
    /\ \E w \in Workers :
          /\ wpc[w] = "responded"
          /\ req[w].op = "delete"
          /\ resp[w].error = "TransactionNotFoundError"

(***************************************************************************)
(* Properties of the start-up (specification Spec).                        *)
(***************************************************************************)
StartupOrder == <<"load", "dal", "timeline", "stats">>

\* A request of a client is taken by some worker.
RequestStep == GetStep \/ DeleteBeginStep \/ ListStep \/ SearchStep

\* C6: the start-up stages run once each in the order load, DAL, timeline,
\* statistics, and no request is taken or in progress before all four are
\* done and lifespan has yielded.
C6_StartupBeforeQueries ==
    /\ log = SubSeq(StartupOrder, 1, Len(log))
    /\ (ENABLED RequestStep \/ \E w \in Workers : wpc[w] # "idle") =>
            /\ pc = "serving"
            /\ log = StartupOrder
            /\ {"dal", "customer_timeline", "cached_stats"} \subseteq attrs
            /\ dal.timeline = customer_timeline
            /\ Ids(LoadedRows) \ succeeded = Ids(dal.rows)

\* A lookup was answered with a row.
C6_Witness ==
    \E w \in Workers :
        /\ wpc[w] = "responded"
        /\ req[w].op = "get"
        /\ resp[w].status = 200

\* C7: when the load fails the process exits: the DAL, the timeline and the
\* cached statistics are never set and no request is ever taken.
C7_LoadFailureExits ==
    ~LoadSucceeds(source) =>
        /\ pc \in {"start", "exited"}
        /\ attrs \cap {"dal", "customer_timeline", "cached_stats"} = {}
        /\ log = <<>>
        /\ ~ENABLED RequestStep
        /\ \A w \in Workers : wpc[w] = "idle"
        /\ (pc = "exited" => ~ENABLED Next)

\* The process exited on a source whose type column holds an unknown type.
C7_Witness ==
    /\ pc = "exited"
    /\ source.exists
    /\ validate_types(source.rows) # {}

(***************************************************************************)
(* Properties of the lookup (specification Spec).                          *)
(***************************************************************************)
\* Worker w takes a GET of id in this step.
GetCalled(w, id) ==
    /\ wpc[w] = "idle"
    /\ wpc'[w] # "idle"
    /\ req'[w] = [op |-> "get", id |-> id]

\* C10: a lookup of an id that is in the store answers a row of the store
\* whose id is the id asked for; a lookup of any other id fails with
\* TransactionNotFoundError and answers no row.
C10_GetByIdRoundTrip ==
    [][\A w \in Workers, id \in RequestIds :
        GetCalled(w, id) =>
            /\ wpc'[w] = "responded"
            /\ IF InStore(id)
               THEN /\ resp'[w].status = 200
                    /\ resp'[w].error = ""
                    /\ resp'[w].body \in Range(dal.rows)
                    /\ resp'[w].body.id = id
               ELSE /\ resp'[w].error = "TransactionNotFoundError"
                    /\ resp'[w].status = 404
                    /\ resp'[w].body = None]_vars

\* One worker found tx_0000001 while the other was refused tx_0000000, which
\* had been deleted.
C10_Witness ==
    \E w, v \in Workers :
        /\ wpc[w] = "responded" /\ wpc[v] = "responded"
        /\ req[w] = [op |-> "get", id |-> TxId(1)]
        /\ resp[w].status = 200
        /\ resp[w].body.id = TxId(1)
        /\ req[v] = [op |-> "get", id |-> TxId(0)]
        /\ resp[v].error = "TransactionNotFoundError"

(***************************************************************************)
(* Properties of listing and search (specification SpecQuery).             *)
(***************************************************************************)
Max(a, b) == IF a >= b THEN a ELSE b

ListAnswered == wpc[1] = "responded" /\ req[1].op = "list"

SearchAnswered == wpc[1] = "responded" /\ req[1].op = "search"

\* Page q of size l of the listing under the filters of the answered request.
PageUnderRequest(q, l) ==
    get_transactions(dal, q, l, req[1].type, req[1].isFraud,
                     req[1].min_amount, req[1].max_amount)

\* Pages 1..n of size l, one after the other.
RECURSIVE PagesUpTo(_, _)
PagesUpTo(n, l) ==
    IF n = 0 THEN <<>> ELSE PagesUpTo(n - 1, l) \o PageUnderRequest(n, l)[1]

\* C8: the answered page p of size l holds rows (p-1)l .. pl-1 of the filtered
\* result, which is in table order; the pages 1, 2, ... put one after the
\* other are the filtered result (no overlap, no gap, lengths summing to the
\* total); a page past the end is empty and reports the same total.
C8_PaginationPartitionsResult ==
    ListAnswered =>
        LET p == req[1].page
            l == req[1].limit
            page == resp[1].value[1]
            total == resp[1].value[2]
            filtered == PageUnderRequest(1, Len(dal.rows) + 1)[1]
            last == total \div l + 1
        IN  /\ total = Len(filtered)
            /\ filtered = SelectSeq(dal.rows, LAMBDA r : r \in Range(filtered))
            /\ Len(page) = Max(0, Min(l, total - (p - 1) * l))
            /\ \A k \in 1..Len(page) : page[k] = filtered[(p - 1) * l + k]
            /\ PagesUpTo(last, l) = filtered
            /\ \A q \in 1..last : PageUnderRequest(q, l)[2] = total
            /\ PageUnderRequest(last + 1, l) = <<(<<>>), total>>

\* The second page of size 1 of a filtered listing of two rows was answered.
C8_Witness ==
    /\ ListAnswered
    /\ req[1].page = 2
    /\ req[1].limit = 1
    /\ req[1].type = Some("PAYMENT")
    /\ resp[1].value[2] = 2
    /\ Len(resp[1].value[1]) = 1

\* A row meets every criterion that is supplied.
SatisfiesAll(r, type, isFraud, lo, hi) ==
    /\ (type # None => r.type = Get(type))
    /\ (isFraud # None => r.isFraud = Get(isFraud))
    /\ (lo # None => r.amount >= Get(lo))
    /\ (hi # None => r.amount <= Get(hi))

\* The rows of the store that meet the criteria, in table order.
RowsSatisfying(type, isFraud, lo, hi) ==
    SelectSeq(dal.rows, LAMBDA r : SatisfiesAll(r, type, isFraud, lo, hi))

\* The answered listing is page p of `expected` and counts `expected`.
ListingIs(expected) ==
    resp[1].value =
        <<Slice(expected, (req[1].page - 1) * req[1].limit, req[1].page * req[1].limit),
          Len(expected)>>

\* The answered search returns the rows that meet its criteria.
SearchIsExact ==
    SearchAnswered =>
        resp[1].value =
            RowsSatisfying(req[1].type, req[1].isFraud,
                IF req[1].amount_range = None THEN None
                ELSE Some(Get(req[1].amount_range)[1]),
                IF req[1].amount_range = None THEN None
                ELSE Some(Get(req[1].amount_range)[2]))

\* Apart from the empty type string, which a listing treats as no type at
\* all, listing and search match exactly the rows that meet every supplied
\* criterion.
FiltersHoldApartFromEmptyType ==
    /\ ListAnswered =>
          ListingIs(RowsSatisfying(
              IF req[1].type = Some("") THEN None ELSE req[1].type,
              req[1].isFraud, req[1].min_amount, req[1].max_amount))
    /\ SearchIsExact

\* C9: the rows a listing matches (those its total counts) and the rows a
\* search returns are exactly the rows of the table that meet every supplied
\* criterion at once (type equal, isFraud equal, min <= amount <= max), in
\* table order; a criterion that is not supplied imposes no constraint.
C9_FiltersMatchSuppliedCriteria ==
    /\ ListAnswered =>
          ListingIs(RowsSatisfying(req[1].type, req[1].isFraud,
                                   req[1].min_amount, req[1].max_amount))
    /\ SearchIsExact

(***************************************************************************)
(* Properties of the fraud scoring (specification SpecFraud).              *)
(***************************************************************************)
PredictAnswered == wpc[1] = "responded" /\ req[1].op = "predict"

\* The points, in hundredths, of the three rules that read the request only.
RequestPoints ==
    (IF 100 * Abs((req[1].oldbalanceOrg - req[1].amount) - req[1].newbalanceOrig) > 1
     THEN 30 ELSE 0)
    + (IF req[1].type \in {"CASH_OUT", "TRANSFER"} THEN 30 ELSE 0)
    + (IF req[1].amount > 100000 THEN 40 ELSE 0)

\* The request names a customer and a step, and the loaded table has a row
\* sent by that customer exactly one step away.
AdjacentRowExists ==
    /\ req[1].nameOrig # None
    /\ req[1].step # None
    /\ \E i \in 1..Len(df) :
          /\ df[i].nameOrig = Get(req[1].nameOrig)
          /\ Abs(df[i].step - Get(req[1].step)) = 1

InUnit(f) == f.den > 0 /\ 0 <= f.num /\ f.num <= f.den

\* Every rate the engine serves lies in [0,1] and no type has more frauds
\* than rows.
RatesInUnit ==
    /\ InUnit(get_overview(cached_stats).fraud_rate)
    /\ InUnit(get_fraud_summary(cached_stats).precision)
    /\ InUnit(get_fraud_summary(cached_stats).recall)
    /\ \A k \in 1..Len(get_fraud_by_type(cached_stats)) :
          /\ InUnit(get_fraud_by_type(cached_stats)[k].fraud_rate)
          /\ get_fraud_by_type(cached_stats)[k].fraud_count
                 <= get_fraud_by_type(cached_stats)[k].total

\* For a table with at least one row the rates are in [0,1].
RatesInUnitUnlessEmpty == (Serving /\ df # <<>>) => RatesInUnit

\* C13: for every table the loader accepts and the engine serves, of any
\* size, the overview's fraud_rate, the summary's precision and recall and
\* every by-type fraud_rate lie in [0,1], and every by-type entry has
\* fraud_count <= total.
C13_RatesInUnitInterval == Serving => RatesInUnit

\* f is n/d to the nearest hundredth, and 0 when d = 0.
NearestHundredth(f, n, d) ==
    /\ f.den = 100
    /\ IF d = 0 THEN f.num = 0 ELSE 2 * Abs(f.num * d - 100 * n) <= d

\* C14: the fraud summary has total_frauds = rows with isFraud = 1, flagged
\* = rows with isFlaggedFraud = 1, precision = (rows with both)/flagged and
\* recall = (rows with both)/total_frauds, each 0 when its denominator is 0
\* and rounded to 2 decimals; isFraud [1,1,0,0,1] with isFlaggedFraud
\* [1,0,1,0,1] gives 0.67 and 0.67.
C14_FraudSummary ==
    Serving =>
        LET s == get_fraud_summary(cached_stats)
            frauds == {i \in 1..Len(df) : df[i].isFraud = 1}
            flags == {i \in 1..Len(df) : df[i].isFlaggedFraud = 1}
            both == Cardinality(frauds \cap flags)
        IN  /\ s.total_frauds = Cardinality(frauds)
            /\ s.flagged = Cardinality(flags)
            /\ NearestHundredth(s.precision, both, Cardinality(flags))
            /\ NearestHundredth(s.recall, both, Cardinality(frauds))
            /\ (/\ [i \in 1..Len(df) |-> df[i].isFraud] = <<1, 1, 0, 0, 1>>
                /\ [i \in 1..Len(df) |-> df[i].isFlaggedFraud] = <<1, 0, 1, 0, 1>>)
               => s.precision = Frac(67, 100) /\ s.recall = Frac(67, 100)

\* The five-row table of the example is served with precision 0.67.
C14_Witness ==
    /\ Serving
    /\ [i \in 1..Len(df) |-> df[i].isFraud] = <<1, 1, 0, 0, 1>>
    /\ [i \in 1..Len(df) |-> df[i].isFlaggedFraud] = <<1, 0, 1, 0, 1>>
    /\ get_fraud_summary(cached_stats).precision = Frac(67, 100)
    /\ get_fraud_summary(cached_stats).recall = Frac(67, 100)

\* C15: the fraud_count values of the by-type entries sum to the summary's
\* total_frauds, and there is exactly one entry for each type present in the
\* table.
C15_FraudByTypeCoversTable ==
    Serving =>
        LET bt == get_fraud_by_type(cached_stats)
            present == {df[i].type : i \in 1..Len(df)}
        IN  /\ SumSeq([k \in 1..Len(bt) |-> bt[k].fraud_count])
                  = get_fraud_summary(cached_stats).total_frauds
            /\ {bt[k].type : k \in 1..Len(bt)} = present
            /\ Len(bt) = Cardinality(present)

\* A table with frauds of two types is served.
C15_Witness ==
    /\ Serving
    /\ Len(get_fraud_by_type(cached_stats)) = 2
    /\ \A k \in 1..2 : get_fraud_by_type(cached_stats)[k].fraud_count >= 1
    /\ get_fraud_summary(cached_stats).total_frauds = 3

\* C16: at start-up the by-type counts sum to the overview's
\* total_transactions, and each by-type count is the total that a listing
\* filtered by that type alone reports on the store as loaded.
C16_ByTypeCountsMatchListing ==
    Serving =>
        LET bt == get_stats_by_type(cached_stats)
        IN  /\ SumSeq([k \in 1..Len(bt) |-> bt[k].count])
                  = get_overview(cached_stats).total_transactions
            /\ get_overview(cached_stats).total_transactions = Len(dal.rows)
            /\ \A k \in 1..Len(bt) :
                  (/\ ListAnswered
                   /\ req[1].type = Some(bt[k].type)
                   /\ req[1].isFraud = None
                   /\ req[1].min_amount = None
                   /\ req[1].max_amount = None)
                  => resp[1].value[2] = bt[k].count

\* A listing by PAYMENT reported 2 on a table of payments and a transfer.
C16_Witness ==
    /\ Serving
    /\ ListAnswered
    /\ req[1].type = Some("PAYMENT")
    /\ resp[1].value[2] = 2
    /\ Len(get_stats_by_type(cached_stats)) = 2
    /\ get_overview(cached_stats).total_transactions = 3

(***************************************************************************)
(* Properties of the loader (specification SpecStats).                     *)
(***************************************************************************)
\* The load has succeeded.
Loaded == pc \notin {"start", "exited"}

\* The ids of the first ten rows of any table.
FirstIds ==
    <<"tx_0000000", "tx_0000001", "tx_0000002", "tx_0000003", "tx_0000004",
      "tx_0000005", "tx_0000006", "tx_0000007", "tx_0000008", "tx_0000009">>

\* C17: row i of the source (0-based, in source order) gets the id "tx_"
\* followed by i zero-padded to 7 digits, so the ids of a loaded table are
\* pairwise distinct and contiguous from tx_0000000.
C17_LoaderAssignsIds ==
    Loaded =>
        /\ Len(df) = Len(source.rows)
        /\ \A i \in 1..Len(df) :
              /\ df[i].id = FirstIds[i]
              /\ df[i] = [id |-> df[i].id] @@ source.rows[i]
        /\ \A i, j \in 1..Len(df) : df[i].id = df[j].id => i = j
        /\ TxId(10) = "tx_0000010"
        /\ TxId(1234567) = "tx_1234567"
        /\ TxId(9999999) = "tx_9999999"

\* The five-row table is loaded; its last row is tx_0000004.
C17_Witness ==
    /\ Loaded
    /\ Len(df) = 5
    /\ df[5].id = "tx_0000004"
    /\ df[1].id = "tx_0000000"

(***************************************************************************)
(* Properties of the validation (specification SpecLoad).                  *)
(***************************************************************************)
\* Row i of the source has a value in column c.
HasValue(i, c) == c \in Columns(source) /\ c \notin Nulls(source.rows[i])

\* The categories of rule the source violates.
ViolatedCategories ==
    {"columns" : c \in REQUIRED_COLUMNS \ Columns(source)}
    \cup {"types" : i \in {j \in 1..Len(source.rows) :
              HasValue(j, "type") /\ source.rows[j].type \notin VALID_TYPES}}
    \cup {"fraud" : i \in {j \in 1..Len(source.rows) :
              \/ HasValue(j, "isFraud") /\ source.rows[j].isFraud \notin {0, 1}
              \/ HasValue(j, "isFlaggedFraud")
                     /\ source.rows[j].isFlaggedFraud \notin {0, 1}}}
    \cup {"nulls" : i \in {j \in 1..Len(source.rows) :
              Nulls(source.rows[j]) \cap Columns(source) # {}}}

\* The categories the report of the failed load has findings in.
ReportedCategories ==
    {"columns" : c \in load_error.missing_columns}
    \cup {"types" : t \in load_error.invalid_types}
    \cup {"fraud" : i \in load_error.invalid_fraud_values}
    \cup {"nulls" : c \in DOMAIN load_error.null_values}

\* C18: when a source violates several validation rules at once, the load
\* fails once with a report that has every violated category and, within a
\* category, all violations: all missing columns, all row indices with a bad
\* fraud label or flag, all offending type values, all columns with nulls.
C18_ValidationIsExhaustive ==
    /\ (Loaded /\ source.exists) => (ViolatedCategories = {} /\ load_error = NoLoadError)
    /\ (pc = "exited" /\ source.exists) =>
          /\ log = <<>>
          /\ ViolatedCategories # {}
          /\ ReportedCategories = ViolatedCategories
          /\ load_error.missing_columns = REQUIRED_COLUMNS \ Columns(source)
          /\ load_error.invalid_types =
                {source.rows[i].type : i \in {j \in 1..Len(source.rows) :
                    HasValue(j, "type")}} \ VALID_TYPES
          /\ load_error.invalid_fraud_values =
                {i - 1 : i \in {j \in 1..Len(source.rows) :
                    \/ HasValue(j, "isFraud") /\ source.rows[j].isFraud \notin {0, 1}
                    \/ HasValue(j, "isFlaggedFraud")
                           /\ source.rows[j].isFlaggedFraud \notin {0, 1}}}
          /\ \A c \in DOMAIN load_error.null_values :
                load_error.null_values[c] =
                    Cardinality({i \in 1..Len(source.rows) : c \in Nulls(source.rows[i])})

\* A load failed on a source lacking two columns, with a bad type in one
\* row and bad fraud values in another: three categories in one report.
C18_Witness ==
    /\ pc = "exited"
    /\ source.exists
    /\ Cardinality(load_error.missing_columns) = 2
    /\ load_error.invalid_types = {"BOGUS"}
    /\ load_error.invalid_fraud_values = {1}
    /\ ReportedCategories = {"columns", "types", "fraud"}

(***************************************************************************)
(* Properties of the customer operations (specification SpecCustomers).    *)
(***************************************************************************)
CustomerAnswered == wpc[1] = "responded" /\ req[1].op = "customer"

\* The customer is the origin of at least one row of the store.
AppearsAsOrigin(c) == \E i \in 1..Len(dal.rows) : dal.rows[i].nameOrig = c

\* The answered profile but for its average: found exactly when the
\* customer is an origin, counting the rows transactionsByCustomer returns,
\* fraudulent iff one of them is a fraud.
ProfileButAverage ==
    LET c == req[1].customer_id
        g == get_transactions_by_customer(dal, c, TRUE)
    IN  IF AppearsAsOrigin(c)
        THEN /\ resp[1].status = 200
             /\ resp[1].body.id = c
             /\ resp[1].body.transactions_count = Len(g)
             /\ resp[1].body.fraudulent = (\E i \in 1..Len(g) : g[i].isFraud = 1)
             /\ \A i \in 1..Len(g) : g[i].nameOrig = c
        ELSE /\ resp[1].error = "CustomerNotFoundError"
             /\ resp[1].status = 404
             /\ resp[1].body = None

\* C19: customerStats(c) is found exactly when c is the origin of at least
\* one row; its count is the number of rows transactionsByCustomer(c) returns,
\* its average is the mean amount of those rows, and fraudulent is true iff
\* one of them has isFraud = 1; a customer that only receives is not found.
C19_CustomerStats ==
    CustomerAnswered =>
        /\ ProfileButAverage
        /\ AppearsAsOrigin(req[1].customer_id) =>
              LET g == get_transactions_by_customer(dal, req[1].customer_id, TRUE)
              IN  resp[1].body.avg_amount.num * Len(g)
                      = SumSeq(Amounts(g)) * resp[1].body.avg_amount.den

\* C19 (amended): as claimed, with the average being the mean amount rounded
\* to 2 decimals.
C19_CustomerStatsRounded ==
    CustomerAnswered =>
        /\ ProfileButAverage
        /\ AppearsAsOrigin(req[1].customer_id) =>
              LET g == get_transactions_by_customer(dal, req[1].customer_id, TRUE)
              IN  NearestHundredth(resp[1].body.avg_amount, SumSeq(Amounts(g)), Len(g))

\* C1 sent 100, 100 and 101, the last a fraud: the profile has 3 rows, the
\* average 100.33 and the fraud mark.
C19_Witness ==
    /\ CustomerAnswered
    /\ req[1].customer_id = "C1"
    /\ resp[1].status = 200
    /\ resp[1].body.transactions_count = 3
    /\ resp[1].body.avg_amount = Frac(10033, 100)
    /\ resp[1].body.fraudulent

TopAnswered == wpc[1] = "responded" /\ req[1].op = "top"

\* The rows of the store the customer sent.
OriginRows(c) == SelectSeq(dal.rows, LAMBDA r : r.nameOrig = c)

TotalSent(c) == SumSeq(Amounts(OriginRows(c)))

\* The position in the store of the first row the customer sent.
FirstSeen(c) ==
    CHOOSE i \in 1..Len(dal.rows) :
        /\ dal.rows[i].nameOrig = c
        /\ \A j \in 1..(i - 1) : dal.rows[j].nameOrig # c

\* Customer a ranks before customer b: a sent more, or as much and was seen
\* first.
RanksBefore(a, b) ==
    \/ TotalSent(a) > TotalSent(b)
    \/ TotalSent(a) = TotalSent(b) /\ FirstSeen(a) < FirstSeen(b)

\* The answered ranking but for its amounts: the first min(n, customers)
\* customers by total sent, ties in first-seen order, each with its count.
RankingButAmounts ==
    LET out == resp[1].value
        customers == {dal.rows[i].nameOrig : i \in 1..Len(dal.rows)}
    IN  /\ Len(out) = Min(req[1].n, Cardinality(customers))
        /\ \A k \in 1..Len(out) :
              /\ out[k].id \in customers
              /\ out[k].transactions_count = Len(OriginRows(out[k].id))
        /\ \A k \in 1..(Len(out) - 1) :
              /\ TotalSent(out[k].id) >= TotalSent(out[k + 1].id)
              /\ RanksBefore(out[k].id, out[k + 1].id)
        /\ \A c \in customers \ {out[k].id : k \in 1..Len(out)} :
              \A k \in 1..Len(out) : RanksBefore(out[k].id, c)

\* C20: topCustomers(n) returns min(n, number of distinct origin customers)
\* entries, sorted non-increasing by total amount sent, customers of equal
\* total in first-seen order; each entry's count, total and average are
\* those of the customer's origin rows.
C20_TopCustomers ==
    TopAnswered =>
        /\ RankingButAmounts
        /\ \A k \in 1..Len(resp[1].value) :
              LET e == resp[1].value[k]
              IN  /\ e.total_amount.num = TotalSent(e.id) * e.total_amount.den
                  /\ e.avg_amount.num * Len(OriginRows(e.id))
                         = TotalSent(e.id) * e.avg_amount.den

\* C20 (amended): as claimed, with each entry's total and average being
\* those of the customer's origin rows rounded to 2 decimals.
C20_TopCustomersRounded ==
    TopAnswered =>
        /\ RankingButAmounts
        /\ \A k \in 1..Len(resp[1].value) :
              LET e == resp[1].value[k]
              IN  /\ NearestHundredth(e.total_amount, TotalSent(e.id), 1)
                  /\ NearestHundredth(e.avg_amount, TotalSent(e.id),
                                      Len(OriginRows(e.id)))

\* With C2 seen before C1, both having sent 100, and C3 having sent 201, the
\* top 2 are C3 and C2.
C20_Witness ==
    /\ TopAnswered
    /\ req[1].n = 2
    /\ Len(resp[1].value) = 2
    /\ resp[1].value[1].id = "C3"
    /\ resp[1].value[2].id = "C2"
    /\ AppearsAsOrigin("C1")
    /\ TotalSent("C1") = TotalSent("C2")

CustomersAnswered == wpc[1] = "responded" /\ req[1].op = "customers"

\* The distinct origin customers of the store.
OriginCustomers == {dal.rows[i].nameOrig : i \in 1..Len(dal.rows)}

\* The number of origin customers first seen before customer c.
SeenBefore(c) == Cardinality({b \in OriginCustomers : FirstSeen(b) < FirstSeen(c)})

\* The places <<page, position>> at which the pages of size l list customer c.
ListedAt(c, l) ==
    {pos \in (1..(Len(dal.rows) + 1)) \X (1..l) :
        /\ pos[2] <= Len(get_customers(dal, pos[1], l)[1])
        /\ get_customers(dal, pos[1], l)[1][pos[2]] = c}

\* C21: the answered page p of size l of the customer listing holds entries
\* (p-1)l .. pl-1 of the list of the distinct origin customers in first-seen
\* order, each customer once; the total is the number of distinct origin
\* customers, and the profile of every listed customer is found.
C21_ListCustomers ==
    CustomersAnswered =>
        LET p == req[1].page
            l == req[1].limit
            page == resp[1].value[1]
            total == resp[1].value[2]
        IN  /\ total = Cardinality(OriginCustomers)
            /\ Len(page) = Max(0, Min(l, total - (p - 1) * l))
            /\ \A k \in 1..Len(page) :
                  /\ page[k] \in OriginCustomers
                  /\ SeenBefore(page[k]) = (p - 1) * l + k - 1
                  /\ get_customer_by_id(dal, page[k]).exc = ""
            /\ \A c \in OriginCustomers :
                  /\ Cardinality(ListedAt(c, l)) = 1
                  /\ get_customer_by_id(dal, c).exc = ""

\* Page 2 of size 1 was answered on a table whose rows are sent by C2, C1, C2
\* in that order: the page holds C1 and the total is 2.
C21_Witness ==
    /\ CustomersAnswered
    /\ req[1].page = 2
    /\ req[1].limit = 1
    /\ Len(dal.rows) = 3
    /\ [i \in 1..3 |-> dal.rows[i].nameOrig] = <<"C2", "C1", "C2">>
    /\ resp[1].value = << <<"C1">>, 2 >>

(***************************************************************************)
(* Properties of the error responses (specification SpecErrors).           *)
(***************************************************************************)
\* The request of worker 1 was answered with an error of class e.
FailedWith(e) == wpc[1] = "responded" /\ resp[1].error = e

\* C22: whatever ran before, a request that fails is answered with the code
\* of its error class: 404 for TransactionNotFoundError and
\* CustomerNotFoundError, 400 for InvalidSearchCriteriaError, 403 for
\* DeleteNotAllowedError, 500 for every other BankingAPIError; a class with
\* a handler of its own is never answered by the BankingAPIError handler.
C22_ErrorsMapToFixedCodes ==
    /\ FailedWith("TransactionNotFoundError") => resp[1].status = 404
    /\ FailedWith("CustomerNotFoundError") => resp[1].status = 404
    /\ FailedWith("InvalidSearchCriteriaError") => resp[1].status = 400
    /\ FailedWith("DeleteNotAllowedError") => resp[1].status = 403
    /\ FailedWith("DataNotLoadedError") => resp[1].status = 500
    /\ FailedWith("BankingAPIError") => resp[1].status = 500
    /\ (wpc[1] = "responded" /\ resp[1].error # "") =>
          /\ resp[1].error \in BankingAPIErrors \cup {"BankingAPIError"}
          /\ resp[1].body = None
    /\ (wpc[1] = "responded" /\ resp[1].error = "") => resp[1].status = 200

\* After a delete succeeded, a lookup of the deleted row was answered 404.
C22_Witness ==
    /\ succeeded # {}
    /\ FailedWith("TransactionNotFoundError")
    /\ req[1].op = "get"
    /\ req[1].id \in succeeded
    /\ resp[1].status = 404

(***************************************************************************)
(* Properties of the histogram and of the daily statistics (specification  *)
(* SpecAggregates).                                                        *)
(***************************************************************************)
\* The finite edges of the eight bins; the last bin has no upper edge.
Edges == <<0, 100, 500, 1000, 5000, 10000, 50000, 100000>>

\* The rows of the table whose amount a has lo <= a < hi.
RowsFromBelow(lo, hi) == {j \in 1..Len(df) : lo <= df[j].amount /\ df[j].amount < hi}

\* The rows of the table whose amount a has lo < a <= hi.
RowsUpTo(lo, hi) == {j \in 1..Len(df) : lo < df[j].amount /\ df[j].amount <= hi}

\* An amount above that of every row of the table.
Beyond == 1 + SumSeq(Amounts(df))

\* What the histogram does count: bin i holds the rows with
\* edge_i < amount <= edge_i+1, the last bin those with amount > 100000.
HistogramIsRightClosed ==
    Serving =>
        LET h == get_amount_distribution(cached_stats)
        IN  /\ Len(h.bins) = 8 /\ Len(h.counts) = 8
            /\ \A i \in 1..8 :
                  h.counts[i] =
                      Cardinality(RowsUpTo(Edges[i],
                                           IF i < 8 THEN Edges[i + 1] ELSE Beyond))

\* C23: bin i of the histogram, of the 8 bins with edges 0, 100, 500, 1000,
\* 5000, 10000, 50000, 100000 and infinity, counts the rows with
\* edge_i <= amount < edge_i+1; an amount equal to an edge is counted in the
\* bin that starts at that edge.
C23_HistogramBinsAreHalfOpen ==
    Serving =>
        LET h == get_amount_distribution(cached_stats)
        IN  /\ Len(h.bins) = 8 /\ Len(h.counts) = 8
            /\ \A i \in 1..8 :
                  h.counts[i] =
                      Cardinality(RowsFromBelow(Edges[i],
                                                IF i < 8 THEN Edges[i + 1] ELSE Beyond))

DailyAnswered == wpc[1] = "responded" /\ req[1] = [op |-> "stats", name |-> "daily"]

\* The labels of days 0, 1, 2.
DayLabels == <<"1-24", "25-48", "49-72">>

\* The row indices of the table whose step div 24 is d.
RowsOfDay(d) == {j \in 1..Len(df) : df[j].step \div 24 = d}

\* The sum of the amounts of the rows with indices in S.
RECURSIVE AmountOver(_)
AmountOver(S) ==
    IF S = {} THEN 0
    ELSE LET j == CHOOSE x \in S : TRUE IN df[j].amount + AmountOver(S \ {j})

\* C24: the daily statistics answered have exactly one entry per day
\* (= step div 24) present in the table, in ascending day order; the entry
\* of day d is labelled "{24d+1}-{24(d+1)}" and carries the count, the mean
\* and the sum of the amounts of exactly the rows of day d.
C24_DailyStats ==
    DailyAnswered =>
        LET out == resp[1].body
            days == {df[j].step \div 24 : j \in 1..Len(df)}
            DayAt(k) == CHOOSE d \in days : Cardinality({e \in days : e < d}) = k - 1
        IN  /\ Len(out) = Cardinality(days)
            /\ \A k \in 1..Len(out) :
                  LET rows == RowsOfDay(DayAt(k))
                  IN  /\ out[k].step_range = DayLabels[DayAt(k) + 1]
                      /\ out[k].transaction_count = Cardinality(rows)
                      /\ out[k].total_amount = AmountOver(rows)
                      /\ out[k].avg_amount.den > 0
                      /\ out[k].avg_amount.num * Cardinality(rows)
                             = AmountOver(rows) * out[k].avg_amount.den

\* The daily statistics of a table with steps 48, 1, 23 were answered: day 0
\* with two rows first, then day 2.
C24_Witness ==
    /\ DailyAnswered
    /\ [j \in 1..Len(df) |-> df[j].step] = <<48, 1, 23>>
    /\ Len(resp[1].body) = 2
    /\ resp[1].body[1].step_range = "1-24"
    /\ resp[1].body[1].transaction_count = 2
    /\ resp[1].body[1].total_amount = 100051
    /\ resp[1].body[2].step_range = "49-72"

(***************************************************************************)
(* Properties of the timeline (specification SpecFraud).                   *)
(***************************************************************************)
\* The timeline has been built.
TimelineBuilt == "customer_timeline" \in attrs

\* The (step, row reference) pairs of the rows customer c sent.
EntriesOf(c) == {<<df[i].step, i - 1>> : i \in {j \in 1..Len(df) : df[j].nameOrig = c}}

\* The sum of the lengths of the timelines of the customers in S.
RECURSIVE TimelineLengths(_)
TimelineLengths(S) ==
    IF S = {} THEN 0
    ELSE LET c == CHOOSE x \in S : TRUE
         IN  Len(customer_timeline[c]) + TimelineLengths(S \ {c})

\* C25: the timeline built at start-up has, for each customer, exactly one
\* (step, row reference) entry per row the customer sent and no other,
\* ascending by step with entries of one step in row order; the lengths of
\* all timelines sum to the number of rows, and the timeline of an unknown
\* customer is empty.
C25_TimelineOfEveryCustomer ==
    TimelineBuilt =>
        /\ DOMAIN customer_timeline = {df[i].nameOrig : i \in 1..Len(df)}
        /\ \A c \in DOMAIN customer_timeline :
              LET t == customer_timeline[c]
              IN  /\ Range(t) = EntriesOf(c)
                  /\ Len(t) = Cardinality(EntriesOf(c))
                  /\ \A k \in 1..(Len(t) - 1) :
                        \/ t[k][1] < t[k + 1][1]
                        \/ t[k][1] = t[k + 1][1] /\ t[k][2] < t[k + 1][2]
                  /\ dal_get_customer_timeline(dal, c) = t
        /\ TimelineLengths(DOMAIN customer_timeline) = Len(df)
        /\ \A c \in {"M1", "C_unknown"} \ DOMAIN customer_timeline :
              dal_get_customer_timeline(dal, c) = <<>>

\* C1 sent at step 3 and then at step 1: its timeline has the later row
\* first.
C25_Witness ==
    /\ TimelineBuilt
    /\ Len(df) = 2
    /\ "C1" \in DOMAIN customer_timeline
    /\ customer_timeline["C1"] = << <<1, 1>>, <<3, 0>> >>
    /\ dal_get_customer_timeline(dal, "M1") = <<>>

(***************************************************************************)
(* Properties of repeated scoring (specification SpecPredict).             *)
(***************************************************************************)
\* Worker w takes a scoring request in this step.
PredictCalled(w) ==
    /\ wpc[w] = "idle"
    /\ wpc'[w] = "responded"
    /\ req'[w].op = "predict"

\* Scoring writes nothing of the application state.
PredictWritesNothing ==
    \A w \in Workers :
        PredictCalled(w) =>
            UNCHANGED <<df, dal, customer_timeline, cached_stats, attrs, succeeded>>

\* Scorings of the same arguments that are answered at the same time have
\* the same answer.
SameRequestSameAnswer ==
    \A w, v \in Workers :
        (/\ wpc[w] = "responded" /\ wpc[v] = "responded"
         /\ req[w].op = "predict"
         /\ req[v] = req[w])
        => (resp[v].body = resp[w].body /\ resp[v].status = 200)

\* C26: a scoring leaves the store, the timeline and the cached statistics
\* as they were, and two scorings with the same arguments on the same store
\* have the same isFraud and probability, whatever scorings and reads ran
\* between them.
C26_PredictIsPure == [][PredictWritesNothing]_vars /\ []SameRequestSameAnswer

\* Both threads hold the answer 0.3 to the same plain payment of C1 at step
\* 2, which has a neighbour one step away.
C26_Witness ==
    /\ \A w \in Workers :
          /\ wpc[w] = "responded"
          /\ req[w].op = "predict"
          /\ req[w].nameOrig = Some("C1")
          /\ req[w].step = Some(2)
          /\ req[w].type = "PAYMENT"
          /\ req[w].amount = 500
          /\ resp[w].body = [isFraud |-> FALSE, probability |-> Frac(30, 100)]
    /\ dal.rows # <<>>

(***************************************************************************)
(* Properties of the order of the checks of DELETE (specification Spec).   *)
(***************************************************************************)
\* Stores a DELETE could be run against: none, the loaded one, the present one.
AnyStore == {EmptyDAL, DataFrameDAL(LoadedRows), dal}

\* C27: outside test mode a DELETE fails with DeleteNotAllowedError for
\* every id, in the store or not, whatever the store holds (the store is not
\* consulted) and the store stays as it was; a DELETE fails with
\* TransactionNotFoundError only in test mode, for an id not in the store.
C27_TestModeCheckedFirst ==
    [][\A w \in Workers, id \in RequestIds :
        DeleteCalled(w, id) =>
            /\ ~test_mode =>
                  /\ wpc'[w] = "responded"
                  /\ resp'[w].error = "DeleteNotAllowedError"
                  /\ resp'[w].status = 403
                  /\ dal' = dal
                  /\ \A d \in AnyStore :
                        delete_transaction_check(test_mode, d, id)
                            = "DeleteNotAllowedError"
            /\ (wpc'[w] = "responded" /\ resp'[w].error = "TransactionNotFoundError")
                  => (test_mode /\ ~InStore(id))
            /\ (test_mode /\ ~InStore(id))
                  => (wpc'[w] = "responded" /\ resp'[w].error = "TransactionNotFoundError")]_vars

\* Outside test mode a DELETE of an id that no row has was refused as not
\* allowed, on a store with rows.
C27_Witness ==
    \E w \in Workers :
        /\ ~test_mode
        /\ wpc[w] = "responded"
        /\ req[w] = [op |-> "delete", id |-> "tx_nonexistent"]
        /\ resp[w].error = "DeleteNotAllowedError"
        /\ resp[w].status = 403
        /\ dal.rows # <<>>

(***************************************************************************)
(* Properties of the fraud threshold (specification SpecFraud).            *)
(***************************************************************************)
\* The rules that fire on the answered scoring request.
RulesFired ==
    (IF 100 * Abs((req[1].oldbalanceOrg - req[1].amount) - req[1].newbalanceOrig) > 1
     THEN {"balance"} ELSE {})
    \cup (IF req[1].type \in {"CASH_OUT", "TRANSFER"} THEN {"risky"} ELSE {})
    \cup (IF req[1].amount > 100000 THEN {"high"} ELSE {})
    \cup (IF AdjacentRowExists THEN {"rapid"} ELSE {})

\* C28: isFraud is answered true exactly when at least two of the four rules
\* (balance mismatch, risky type, high amount, rapid transaction) fire: one
\* rule alone stays under the threshold and every pair exceeds it; the
\* probability is one of 0, 0.3, 0.4, 0.6, 0.7, 0.9, 1.0.
C28_FraudIffTwoRules ==
    PredictAnswered =>
        /\ resp[1].body.isFraud = (Cardinality(RulesFired) >= 2)
        /\ resp[1].body.probability.den = 100
        /\ resp[1].body.probability.num \in {0, 30, 40, 60, 70, 90, 100}
        /\ Cardinality(RulesFired) = 1 => resp[1].body.probability.num \in {30, 40}
        /\ Cardinality(RulesFired) = 2 => resp[1].body.probability.num \in {60, 70}

\* A consistent payment of 100001 was scored on which only the high-amount
\* rule fires: 0.4, no fraud.
C28_Witness ==
    /\ PredictAnswered
    /\ RulesFired = {"high"}
    /\ resp[1].body = [isFraud |-> FALSE, probability |-> Frac(40, 100)]

(***************************************************************************)
(* Properties of the labels of the daily statistics (specification         *)
(* SpecAggregates).                                                        *)
(***************************************************************************)
\* The text "a-b" of every pair of steps a, b.
RangeTexts ==
    [ab \in (0..MaxLabelStep) \X (0..MaxLabelStep) |->
        DecStr(ab[1]) \o "-" \o DecStr(ab[2])]

\* The pair <<a, b>> a label "a-b" reads as.
ReadRange(label) == CHOOSE ab \in DOMAIN RangeTexts : RangeTexts[ab] = label

\* The rows of the table whose step lies in a..b.
RowsWithin(ab) == {j \in 1..Len(df) : ab[1] <= df[j].step /\ df[j].step <= ab[2]}

\* What the labels do say: the rows counted under "a-b" are those with
\* a-1 <= step <= b-1.
DailyLabelsAreOneStepLate ==
    DailyAnswered =>
        \A k \in 1..Len(resp[1].body) :
            LET ab == ReadRange(resp[1].body[k].step_range)
            IN  resp[1].body[k].transaction_count
                    = Cardinality(RowsWithin(<<ab[1] - 1, ab[2] - 1>>))

\* C29: every row is counted in the daily entry whose label "a-b" contains
\* its step (a <= step <= b), steps 0 and multiples of 24 included: every
\* row's step lies in the label of some entry, and every entry counts the
\* rows whose step lies in its label.
C29_StepWithinDailyLabel ==
    DailyAnswered =>
        LET out == resp[1].body
        IN  /\ \A j \in 1..Len(df) :
                  \E k \in 1..Len(out) : j \in RowsWithin(ReadRange(out[k].step_range))
            /\ \A k \in 1..Len(out) :
                  out[k].transaction_count
                      = Cardinality(RowsWithin(ReadRange(out[k].step_range)))

(***************************************************************************)
(* Properties of the histogram total (specification SpecAggregates).       *)
(***************************************************************************)
\* The rows of amount 0 are the rows the histogram leaves out.
HistogramOmitsZeroAmounts ==
    Serving =>
        SumSeq(get_amount_distribution(cached_stats).counts)
            = get_overview(cached_stats).total_transactions
                  - Cardinality({j \in 1..Len(df) : df[j].amount = 0})

\* C30: every row of a table of non-negative amounts, amounts of 0 included,
\* is counted in exactly one bin of the histogram: the 8 counts sum to the
\* overview's total_transactions.
C30_HistogramCountsEveryRow ==
    Serving =>
        /\ Len(get_amount_distribution(cached_stats).counts) = 8
        /\ SumSeq(get_amount_distribution(cached_stats).counts)
              = get_overview(cached_stats).total_transactions
        /\ get_overview(cached_stats).total_transactions = Len(df)

====
